---- MODULE Spec2Model ----
(***************************************************************************)
(* A model of cyanfs: the block device and the write-back block cache      *)
(* (src/src/block_dev.rs, src/src/block_cache.rs), the extent I/O and the  *)
(* inode cache (src/src/inode.rs) and the request handlers                 *)
(* (src/src/lib.rs).                                                       *)
(***************************************************************************)
EXTENDS Integers, Sequences, FiniteSets, TLC

(***************************************************************************)
(* Sizes.  BLOCK_SIZE is the const generic of Block/BlockCache/Attrs,      *)
(* instantiated small; CACHE_SIZE is the capacity of the LRU.              *)
(***************************************************************************)
BLOCK_SIZE == 2
CACHE_SIZE == 1
NumBlocks == 3
MaxLen == 4
MaxWrites == 2

BlockIds == 0 .. (NumBlocks - 1)
\* the byte the backing file holds at position j of block b before any write
OrigByte(b, j) == 100 + 10 * b + j
OrigBlock(b) == [j \in 1 .. BLOCK_SIZE |-> OrigByte(b, j)]
\* a fresh [0u8; BLOCK_SIZE]
ZeroBlock == [j \in 1 .. BLOCK_SIZE |-> 0]
\* the buffers a caller writes: two patterns, each byte telling its position
DataVals == {1, 2}
DataBuf(v, len) == [i \in 1 .. len |-> 10 * v + i]
\* the blocks a caller of write_block passes
DataBlocks == {DataBuf(v, BLOCK_SIZE) : v \in DataVals}

VARIABLES
    cache,      \* BlockCache.cache: the LRU, most recently used entry first
    dev,        \* the backing file of the BlockDevice, block id -> block
    wrote,      \* block ids written to the device by the last operation
    evicted,    \* entries that left the block cache in the last operation
    shadow,     \* a plain block map: the last block written per id
    faulty,     \* the block ids at which the backing file fails a write
    file,       \* the Attrs (size, extents) of the inode that read_at/write_at serve
    wr,         \* the last write_at: its offset and buffer
    nwrites,    \* the number of write_at calls so far
    crashed,    \* the process has panicked
    inodes,     \* SFS.db: the rows keyed by inode number, serialized
    superblock, \* SFS.db: the row "superblock", the last inode number handed out
    contents,   \* the files of $data_dir/contents, by inode number
    next_file_handle, \* SFS.next_file_handle
    mounted,    \* init has run
    placed,     \* the (parent, name) pairs placed and not removed since
    opened,     \* per inode, the handles opened and not yet released
    zeroed,     \* the inodes whose link count unlink has driven to 0
    issued,     \* the inode numbers mkdir, create and symlink have handed out
    session,    \* per requesting thread: its request and where the request is
    icache,     \* InodeCache.cache
    kv,         \* the key-value store under the InodeCache
    left,       \* the Inode values the last InodeCache operation dropped
    bitmap,     \* SFS.db: the row "bitmap" of the block allocator
    handed,     \* the replies of allocate_next_block so far
    call        \* a function called on its own: its name, arguments and result

bcVars == <<cache, dev, wrote, evicted, shadow, faulty>>
ioVars == <<file, wr, nwrites>>
fsVars == <<inodes, superblock, contents, next_file_handle, mounted,
            placed, opened, zeroed, issued, session>>
icVars == <<icache, kv, left>>
unitVars == <<bitmap, handed, call>>
vars == <<bcVars, ioVars, crashed, fsVars, icVars, unitVars>>

None == [none |-> TRUE]

(***************************************************************************)
(* lru::LruCache, as block_cache.rs and inode.rs use it: a sequence of     *)
(* <<key, value>> entries, most recently used first.                       *)
(***************************************************************************)
LruKeys(c) == {c[i][1] : i \in 1 .. Len(c)}
LruIndex(c, k) == CHOOSE i \in 1 .. Len(c) : c[i][1] = k
LruWithout(c, k) == SelectSeq(c, LAMBDA e : e[1] # k)
\* get / get_mut: the entry becomes the most recently used one
LruTouch(c, k) == <<c[LruIndex(c, k)]>> \o LruWithout(c, k)
LruValue(c, k) == c[LruIndex(c, k)][2]
\* a put that never makes room
LruPut_never_evicts(c, k, v, cap) ==
    IF k \in LruKeys(c)
    THEN [cache |-> <<(<<k, v>>)>> \o LruWithout(c, k),
          dropped |-> <<LruValue(c, k)>>]
    ELSE [cache |-> <<(<<k, v>>)>> \o c, dropped |-> <<>>]
\* put: returns the new cache and the values that were dropped on the way:
\* the old value of k, or else the least recently used one of a full cache
LruPut(c, k, v, cap) ==
    IF k \in LruKeys(c)
    THEN [cache |-> <<(<<k, v>>)>> \o LruWithout(c, k),
          dropped |-> <<LruValue(c, k)>>]
    ELSE IF Len(c) >= cap
    THEN [cache |-> <<(<<k, v>>)>> \o SubSeq(c, 1, Len(c) - 1),
          dropped |-> <<c[Len(c)][2]>>]
    ELSE [cache |-> <<(<<k, v>>)>> \o c, dropped |-> <<>>]
\* the value of k replaced in place (through the reference get_mut returned)
LruSet(c, k, v) == [i \in 1 .. Len(c) |-> IF c[i][1] = k THEN <<k, v>> ELSE c[i]]

(***************************************************************************)
(* BlockDevice (block_dev.rs) and Block (block_cache.rs).  A state of the  *)
(* block layer is a record s = [cache, dev, wrote, evicted, faulty].       *)
(***************************************************************************)
BlockDevice_read_block(d, block_id) == d[block_id]
\* read_exact_at is Ok when the backing file holds the whole block, and Err
\* (a short read) for a block past its end
BlockDevice_read_block_is_ok(d, block_id) == block_id \in DOMAIN d
\* write_all_at: a block written at the end of the backing file extends it
BlockDevice_write_block(d, block_id, buf) ==
    [b \in DOMAIN d \cup {block_id} |-> IF b = block_id THEN buf ELSE d[b]]

\* write_all_at is Err where the backing file cannot be written
BlockDevice_write_block_is_ok(bad, block_id) == block_id \notin bad

Block(block_id, buffer, dirty) ==
    [block_id |-> block_id, buffer |-> buffer, dirty |-> dirty]

\* a Block dropped without its write-back
Block_drop_forgets(s, b) == [s EXCEPT !.evicted = Append(@, b)]
\* impl Drop for Block: a dirty block is written back to the device; an Err
\* of the write is logged and the block is dropped all the same
Block_drop(s, b) ==
    IF b.dirty /\ BlockDevice_write_block_is_ok(s.faulty, b.block_id)
    THEN [s EXCEPT !.dev = BlockDevice_write_block(@, b.block_id, b.buffer),
                   !.wrote = @ \cup {b.block_id},
                   !.evicted = Append(@, b)]
    ELSE [s EXCEPT !.evicted = Append(@, b)]

RECURSIVE DropBlocks(_, _)
DropBlocks(s, bs) ==
    IF bs = <<>> THEN s ELSE DropBlocks(Block_drop(s, Head(bs)), Tail(bs))

\* a put that gives up when the write-back of the block it has to drop fails
BlockCache_put_blocked(s, b) ==
    LET r == LruPut(s.cache, b.block_id, b, CACHE_SIZE)
    IN IF \E i \in 1 .. Len(r.dropped) :
             r.dropped[i].dirty /\ r.dropped[i].block_id \in s.faulty
       THEN s
       ELSE DropBlocks([s EXCEPT !.cache = r.cache], r.dropped)

\* self.cache.put(block_id, Block {..}) with the drops it causes
BlockCache_put(s, b) ==
    LET r == LruPut(s.cache, b.block_id, b, CACHE_SIZE)
    IN DropBlocks([s EXCEPT !.cache = r.cache], r.dropped)

\* BlockCache::read_block: [s |-> the state after, buf |-> the block
\* delivered, ok |-> the Result is Ok]; on Err the caller's buffer is as it
\* was, a fresh [0u8; BLOCK_SIZE] in read_at and write_at
BlockCache_read_block(s, block_id) ==
    IF block_id \in LruKeys(s.cache)
    THEN [s |-> [s EXCEPT !.cache = LruTouch(@, block_id)],
          buf |-> LruValue(s.cache, block_id).buffer, ok |-> TRUE]
    ELSE IF BlockDevice_read_block_is_ok(s.dev, block_id)
    THEN LET buf == BlockDevice_read_block(s.dev, block_id)
         IN [s |-> BlockCache_put(s, Block(block_id, buf, FALSE)), buf |-> buf,
             ok |-> TRUE]
    ELSE [s |-> s, buf |-> ZeroBlock, ok |-> FALSE]

\* BlockCache::write_block: the state after.  On a hit only the buffer is
\* overwritten; the dirty flag keeps the value it had.
BlockCache_write_block(s, block_id, buf) ==
    IF block_id \in LruKeys(s.cache)
    THEN LET c == LruTouch(s.cache, block_id)
             old == LruValue(s.cache, block_id)
         IN [s EXCEPT !.cache = LruSet(c, block_id, [old EXCEPT !.buffer = buf])]
    ELSE BlockCache_put(s, Block(block_id, buf, TRUE))

\* BlockCache::flush_block, called by Attrs::fsync (inode.rs:126) and not
\* part of block_cache.rs: taken from its description, "writes back if
\* present and dirty; clears dirty".  The order of the LRU is left as it is.
BlockCache_flush_block(s, block_id) ==
    IF /\ block_id \in LruKeys(s.cache)
       /\ LruValue(s.cache, block_id).dirty
       /\ BlockDevice_write_block_is_ok(s.faulty, block_id)
    THEN LET b == LruValue(s.cache, block_id)
         IN [s EXCEPT !.dev = BlockDevice_write_block(@, block_id, b.buffer),
                      !.wrote = @ \cup {block_id},
                      !.cache = LruSet(@, block_id, [b EXCEPT !.dirty = FALSE])]
    ELSE s

\* the block layer before an operation: the per-operation logs are empty
BcState == [cache |-> cache, dev |-> dev, wrote |-> {}, evicted |-> <<>>, faulty |-> faulty]
BcSet(s) ==
    /\ cache' = s.cache
    /\ dev' = s.dev
    /\ wrote' = s.wrote
    /\ evicted' = s.evicted
    /\ faulty' = s.faulty

(***************************************************************************)
(* The block cache on its own: any sequence of read_block and write_block. *)
(***************************************************************************)
\* the parts of the state a specification does not use
IoIdle == file = None /\ wr = None /\ nwrites = 0
FsIdle ==
    /\ inodes = <<>>
    /\ superblock = <<>>
    /\ contents = <<>>
    /\ next_file_handle = 1
    /\ mounted = FALSE
    /\ placed = {}
    /\ opened = <<>>
    /\ zeroed = {}
    /\ issued = <<>>
    /\ session = <<>>
IcIdle == icache = <<>> /\ kv = <<>> /\ left = <<>>
UnitIdle == bitmap = <<>> /\ handed = <<>> /\ call = <<>>
BcIdle ==
    /\ cache = <<>>
    /\ dev = <<>>
    /\ wrote = {}
    /\ evicted = <<>>
    /\ shadow = <<>>
    /\ faulty = {}

InitBC ==
    /\ cache = <<>>
    /\ dev = [b \in BlockIds |-> OrigBlock(b)]
    /\ wrote = {}
    /\ evicted = <<>>
    /\ shadow = [b \in BlockIds |-> OrigBlock(b)]
    /\ faulty = {}
    /\ IoIdle
    /\ crashed = FALSE
    /\ FsIdle
    /\ IcIdle
    /\ UnitIdle

ReadBlock(block_id) ==
    LET r == BlockCache_read_block(BcState, block_id)
    IN /\ BcSet(r.s)
       /\ UNCHANGED <<shadow, ioVars, crashed, fsVars, icVars, unitVars>>

WriteBlock(block_id, buf) ==
    /\ BcSet(BlockCache_write_block(BcState, block_id, buf))
    /\ shadow' = [shadow EXCEPT ![block_id] = buf]
    /\ UNCHANGED <<ioVars, crashed, fsVars, icVars, unitVars>>

NextBC ==
    \/ \E b \in BlockIds : ReadBlock(b)
    \/ \E b \in BlockIds, buf \in DataBlocks : WriteBlock(b, buf)

SpecBC == InitBC /\ [][NextBC]_vars

(***************************************************************************)
(* The block cache over a device that fails the writes of some blocks.     *)
(***************************************************************************)
FaultChoices == {{1}, BlockIds}

InitFault ==
    /\ cache = <<>>
    /\ dev = [b \in BlockIds |-> OrigBlock(b)]
    /\ wrote = {}
    /\ evicted = <<>>
    /\ shadow = [b \in BlockIds |-> OrigBlock(b)]
    /\ faulty \in FaultChoices
    /\ IoIdle
    /\ crashed = FALSE
    /\ FsIdle
    /\ IcIdle
    /\ UnitIdle

SpecFault == InitFault /\ [][NextBC]_vars

(***************************************************************************)
(* Extent I/O: Attrs::blocks, Attrs::read_at, Attrs::write_at (inode.rs).  *)
(***************************************************************************)
Min(a, b) == IF a < b THEN a ELSE b

\* a Range<usize> of block ids and the ids it yields
Range(start, end) == [start |-> start, end |-> end]
RangeSeq(r) ==
    [i \in 1 .. (IF r.end > r.start THEN r.end - r.start ELSE 0) |-> r.start + i - 1]
\* self.extents.iter().flat_map(|r| r.clone())
RECURSIVE FlatBlocks(_)
FlatBlocks(extents) ==
    IF extents = <<>> THEN <<>>
    ELSE RangeSeq(Head(extents)) \o FlatBlocks(Tail(extents))
Attrs_blocks(attrs) == Len(FlatBlocks(attrs.extents))
\* .skip(begin).take(end - begin)
SkipTake(seq, begin, end) == SubSeq(seq, begin + 1, Min(end, Len(seq)))

\* the loop of read_at: every block is read through the cache into data;
\* unwound is set when the unwrap() of a read_block that failed has panicked
RECURSIVE read_at_loop(_, _, _)
read_at_loop(s, blocks, data) ==
    IF blocks = <<>> THEN [s |-> s, data |-> data, unwound |-> FALSE]
    ELSE LET r == BlockCache_read_block(s, Head(blocks))
         IN IF r.ok THEN read_at_loop(r.s, Tail(blocks), data \o r.buf)
            ELSE [s |-> r.s, data |-> data, unwound |-> TRUE]

IoAbort(s) == [s |-> s, status |-> "abort", n |-> 0, bytes |-> <<>>]

\* Attrs::read_at(dev, buf, offset) with len = buf.len().  self.size - offset
\* is a u64 subtraction: with offset > size it panics in a build with overflow
\* checks and wraps to 2^64 - (offset - size) in one without, which exceeds
\* every buffer length, so that min() yields len.  A slice out of the range of
\* data panics.
Attrs_read_at(attrs, s, len, offset, overflow_checks) ==
    LET begin == offset \div BLOCK_SIZE
        end == (offset + len + (BLOCK_SIZE - 1)) \div BLOCK_SIZE
        r == read_at_loop(s, SkipTake(FlatBlocks(attrs.extents), begin, end), <<>>)
        size == IF attrs.size >= offset THEN Min(attrs.size - offset, len) ELSE len
        off == offset % BLOCK_SIZE
    IN IF r.unwound THEN IoAbort(r.s)
       ELSE IF attrs.size < offset /\ overflow_checks THEN IoAbort(r.s)
       ELSE IF off + size > Len(r.data) THEN IoAbort(r.s)
       ELSE [s |-> r.s, status |-> "ok", n |-> size,
             bytes |-> SubSeq(r.data, off + 1, off + size)]

\* the test of inode.rs:96: the block at enumerate() index i is read before
\* it is overwritten; c holds begin, end, off and eoff
reads_before_write(i, c) == (i = c.begin /\ c.off # 0) \/ (i = c.end /\ c.eoff # 0)

\* the first loop of write_at, entered with the enumerate() index i of
\* Head(blocks): a block is read before it is overwritten when the condition
\* of inode.rs:96 holds, and starts as zeros otherwise
RECURSIVE write_at_gather(_, _, _, _, _)
write_at_gather(s, blocks, i, c, data) ==
    IF blocks = <<>> THEN [s |-> s, data |-> data, unwound |-> FALSE]
    ELSE IF reads_before_write(i, c)
    THEN LET r == BlockCache_read_block(s, Head(blocks))
         IN IF r.ok THEN write_at_gather(r.s, Tail(blocks), i + 1, c, data \o r.buf)
            ELSE [s |-> r.s, data |-> data, unwound |-> TRUE]
    ELSE write_at_gather(s, Tail(blocks), i + 1, c, data \o ZeroBlock)

\* data[off..off + buf.len()].copy_from_slice(buf)
Splice(data, off, buf) ==
    [k \in 1 .. Len(data) |->
        IF k > off /\ k <= off + Len(buf) THEN buf[k - off] ELSE data[k]]

\* the second loop of write_at: block i of data goes to the i-th block
RECURSIVE write_at_scatter(_, _, _, _)
write_at_scatter(s, blocks, i, data) ==
    IF blocks = <<>> THEN s
    ELSE write_at_scatter(
            BlockCache_write_block(s, Head(blocks),
                SubSeq(data, i * BLOCK_SIZE + 1, (i + 1) * BLOCK_SIZE)),
            Tail(blocks), i + 1, data)

\* Attrs::write_at(dev, buf, offset)
Attrs_write_at(attrs, s, buf, offset) ==
    LET begin == offset \div BLOCK_SIZE
        end == (offset + Len(buf) + (BLOCK_SIZE - 1)) \div BLOCK_SIZE
        off == offset % BLOCK_SIZE
        eoff == (offset + Len(buf)) % BLOCK_SIZE
        blocks == SkipTake(FlatBlocks(attrs.extents), begin, end)
        g == write_at_gather(s, blocks, begin,
                 [begin |-> begin, end |-> end, off |-> off, eoff |-> eoff], <<>>)
    IN IF g.unwound THEN IoAbort(g.s)
       ELSE IF off + Len(buf) > Len(g.data) THEN IoAbort(g.s)
       ELSE [s |-> write_at_scatter(g.s, blocks, 0, Splice(g.data, off, buf)),
             status |-> "ok", n |-> Len(buf), bytes |-> <<>>]

\* the vector data of write_at after copy_from_slice (inode.rs:101), whose
\* blocks the second loop hands to write_block
write_at_data(attrs, s, buf, offset) ==
    LET begin == offset \div BLOCK_SIZE
        end == (offset + Len(buf) + (BLOCK_SIZE - 1)) \div BLOCK_SIZE
        off == offset % BLOCK_SIZE
        eoff == (offset + Len(buf)) % BLOCK_SIZE
        blocks == SkipTake(FlatBlocks(attrs.extents), begin, end)
        g == write_at_gather(s, blocks, begin,
                 [begin |-> begin, end |-> end, off |-> off, eoff |-> eoff], <<>>)
    IN Splice(g.data, off, buf)

\* Attrs::fsync(dev): flush_block on every block of the extents, in order
RECURSIVE fsync_each(_, _)
fsync_each(s, blocks) ==
    IF blocks = <<>> THEN s
    ELSE fsync_each(BlockCache_flush_block(s, Head(blocks)), Tail(blocks))
Attrs_fsync(attrs, s) == fsync_each(s, FlatBlocks(attrs.extents))

(***************************************************************************)
(* read_at and write_at on one inode over the block cache.  The inode is   *)
(* any whose extents hold its size; the writes are those that lie inside   *)
(* the size, as the caller of write_at extends the inode first.            *)
(***************************************************************************)
ExtentChoices == {<<Range(0, 3)>>, <<Range(1, 3), Range(0, 1)>>}
\* a size that ends inside a block and one that fills the extents
SizeChoices == {BLOCK_SIZE + 1, 3 * BLOCK_SIZE}
Files == {[size |-> sz, extents |-> ex] : sz \in SizeChoices, ex \in ExtentChoices}
\* the offsets tried: up to one byte past the last block
MaxOffset == 3 * BLOCK_SIZE + 1

\* the block of id b as a reader sees it now, and the bytes of the file
BlockView(c, d, b) == IF b \in LruKeys(c) THEN LruValue(c, b).buffer ELSE d[b]
RECURSIVE ConcatViews(_, _, _)
ConcatViews(c, d, blocks) ==
    IF blocks = <<>> THEN <<>>
    ELSE BlockView(c, d, Head(blocks)) \o ConcatViews(c, d, Tail(blocks))
FileBytes == SubSeq(ConcatViews(cache, dev, FlatBlocks(file.extents)), 1, file.size)

InitIO ==
    /\ cache = <<>>
    /\ dev = [b \in BlockIds |-> OrigBlock(b)]
    /\ wrote = {}
    /\ evicted = <<>>
    /\ shadow = [b \in BlockIds |-> OrigBlock(b)]
    /\ faulty = {}
    /\ file \in Files
    /\ wr = None
    /\ nwrites = 0
    /\ crashed = FALSE
    /\ FsIdle
    /\ IcIdle
    /\ UnitIdle

WriteAt(buf, offset) ==
    /\ ~crashed
    /\ nwrites < MaxWrites
    /\ nwrites' = nwrites + 1
    /\ offset + Len(buf) <= file.size
    /\ LET r == Attrs_write_at(file, BcState, buf, offset)
       IN /\ BcSet(r.s)
          /\ crashed' = (r.status = "abort")
    /\ wr' = [offset |-> offset, buf |-> buf]
    /\ UNCHANGED <<shadow, file, fsVars, icVars, unitVars>>

ReadAt(len, offset, overflow_checks) ==
    /\ ~crashed
    /\ LET r == Attrs_read_at(file, BcState, len, offset, overflow_checks)
       IN /\ BcSet(r.s)
          /\ crashed' = (r.status = "abort")
    /\ UNCHANGED <<shadow, file, wr, nwrites, fsVars, icVars, unitVars>>

NextIO ==
    \/ \E len \in 0 .. MaxLen, offset \in 0 .. MaxOffset :
          WriteAt(DataBuf(nwrites + 1, len), offset)
    \/ \E len \in 0 .. MaxLen, offset \in 0 .. MaxOffset :
          \* the two builds differ only where the subtraction overflows
          \E overflow_checks \in (IF offset > file.size THEN BOOLEAN ELSE {TRUE}) :
             ReadAt(len, offset, overflow_checks)

SpecIO == InitIO /\ [][NextIO]_vars

(***************************************************************************)
(* read_at and write_at on an inode whose last block lies past the end of  *)
(* the backing file.                                                       *)
(***************************************************************************)
\* the first block id the backing file does not hold
PastEnd == NumBlocks
FilesPastEnd == {[size |-> 2 * BLOCK_SIZE, extents |-> <<Range(PastEnd - 1, PastEnd + 1)>>]}

InitDev ==
    /\ cache = <<>>
    /\ dev = [b \in BlockIds |-> OrigBlock(b)]
    /\ wrote = {}
    /\ evicted = <<>>
    /\ shadow = [b \in BlockIds |-> OrigBlock(b)]
    /\ faulty = {}
    /\ file \in FilesPastEnd
    /\ wr = None
    /\ nwrites = 0
    /\ crashed = FALSE
    /\ FsIdle
    /\ IcIdle
    /\ UnitIdle

SpecDev == InitDev /\ [][NextIO]_vars

(***************************************************************************)
(* write_at and fsync on one inode.  shadow keeps, per block id, the block *)
(* that write_at handed to write_block last.                               *)
(***************************************************************************)
\* the i-th block (from 0) of the vector data
DataBlock(data, i) == SubSeq(data, i * BLOCK_SIZE + 1, (i + 1) * BLOCK_SIZE)
\* the blocks a write_at of len bytes at offset goes to
WrittenBlocks(attrs, len, offset) ==
    SkipTake(FlatBlocks(attrs.extents), offset \div BLOCK_SIZE,
             (offset + len + (BLOCK_SIZE - 1)) \div BLOCK_SIZE)
LastWritten(sh, blocks, data) ==
    [b \in DOMAIN sh |->
        IF \E i \in 1 .. Len(blocks) : blocks[i] = b
        THEN LET i == CHOOSE i \in 1 .. Len(blocks) : blocks[i] = b
             IN DataBlock(data, i - 1)
        ELSE sh[b]]

WriteAtSync(buf, offset) ==
    /\ ~crashed
    /\ nwrites < MaxWrites
    /\ nwrites' = nwrites + 1
    /\ offset + Len(buf) <= file.size
    /\ LET r == Attrs_write_at(file, BcState, buf, offset)
       IN /\ BcSet(r.s)
          /\ crashed' = (r.status = "abort")
          /\ shadow' = IF r.status = "ok"
                       THEN LastWritten(shadow, WrittenBlocks(file, Len(buf), offset),
                                        write_at_data(file, BcState, buf, offset))
                       ELSE shadow
    /\ wr' = [offset |-> offset, buf |-> buf]
    /\ UNCHANGED <<file, fsVars, icVars, unitVars>>

Fsync ==
    /\ ~crashed
    /\ BcSet(Attrs_fsync(file, BcState))
    /\ UNCHANGED <<shadow, ioVars, crashed, fsVars, icVars, unitVars>>

NextSync ==
    \/ \E len \in 0 .. MaxLen, offset \in 0 .. MaxOffset :
          WriteAtSync(DataBuf(nwrites + 1, len), offset)
    \/ Fsync

SpecSync == InitIO /\ [][NextSync]_vars

(***************************************************************************)
(* The FUSE dispatcher (src/lib.rs): SFS keeps one row per inode and the   *)
(* row "superblock" in the key-value store, and one file per inode under   *)
(* $data_dir/contents.                                                     *)
(***************************************************************************)

FUSE_ROOT_ID == 1
MAX_NAME_LENGTH == 255
LIB_BLOCK_SIZE == 512
MaxIno == 3
MaxHandles == 1
MaxLinks == 3

Inos == FUSE_ROOT_ID .. MaxIno
Names == {"a", "b"}
LongName == "n256"
AllNames == {".", ".."} \cup Names \cup {LongName}
NameLen(name) == IF name = LongName THEN MAX_NAME_LENGTH + 1
                 ELSE IF name = ".." THEN 2 ELSE 1
\* the names in byte order, the order of a BTreeMap<Vec<u8>, _>
NameOrder == <<".", "..", "a", "b", LongName>>
\* the requests come from one unprivileged user
Uids == {1}
Reqs == {[uid |-> u, gid |-> u] : u \in Uids}

\* libc
F_OK == 0
X_OK == 1
W_OK == 2
R_OK == 4
S_ISUID == 2048
S_ISGID == 1024
S_ISVTX == 512
S_IFMT == 61440
S_IFREG == 32768
S_IFDIR == 16384
S_IFLNK == 40960
O_RDONLY == 0
O_WRONLY == 1
O_RDWR == 2
O_ACCMODE == 3
O_TRUNC == 512
FMODE_EXEC == 32
RENAME_EXCHANGE == 2

RECURSIVE BitAnd(_, _)
BitAnd(a, b) ==
    IF a = 0 \/ b = 0 THEN 0
    ELSE (a % 2) * (b % 2) + 2 * BitAnd(a \div 2, b \div 2)
BitOr(a, b) == a + b - BitAnd(a, b)
\* a & !m
BitClear(a, m) == a - BitAnd(a, m)

\* Result<T, c_int>, and the unwinding of a failed unwrap()
Ok(v) == [tag |-> "ok", v |-> v, code |-> "ok"]
Err(code) == [tag |-> "err", v |-> None, code |-> code]
Unwound == [tag |-> "panic", v |-> None, code |-> "panic"]

Put(f, k, v) == [x \in DOMAIN f \cup {k} |-> IF x = k THEN v ELSE f[x]]
Delete(f, k) == [x \in DOMAIN f \ {k} |-> f[x]]

InodeAttributes(inode, open_file_handles, size, kind, mode, hardlinks, uid, gid) ==
    [inode |-> inode, open_file_handles |-> open_file_handles, size |-> size,
     kind |-> kind, mode |-> mode, hardlinks |-> hardlinks, uid |-> uid,
     gid |-> gid, extents |-> <<>>]
\* bincode writes the fields of a struct in their order, without names
bincode_serialize(a) ==
    <<a.inode, a.open_file_handles, a.size, a.kind, a.mode, a.hardlinks,
      a.uid, a.gid, a.extents>>
bincode_deserialize(t) ==
    [inode |-> t[1], open_file_handles |-> t[2], size |-> t[3], kind |-> t[4],
     mode |-> t[5], hardlinks |-> t[6], uid |-> t[7], gid |-> t[8],
     extents |-> t[9]]
\* a DirectoryDescriptor is written as its (name, (inode, kind)) pairs in
\* key order
serialize_directory(entries) ==
    LET ns == SelectSeq(NameOrder, LAMBDA n : n \in DOMAIN entries)
    IN [i \in 1 .. Len(ns) |-> <<ns[i], entries[ns[i]]>>]
deserialize_directory(data) ==
    [n \in {data[i][1] : i \in DOMAIN data} |->
        data[CHOOSE i \in DOMAIN data : data[i][1] = n][2]]

creation_gid(parent, gid) ==
    IF BitAnd(parent.mode, S_ISGID) # 0 THEN parent.gid ELSE gid
\* suid_support is always false (lib.rs:133); "as u16" keeps 16 bits
creation_mode(mode) == BitClear(mode, S_ISUID + S_ISGID) % 65536

\* a check that tests the bits for others where the group's are meant
check_access_without_group(file_uid, file_gid, file_mode, uid, gid, access_mask) ==
    IF access_mask = F_OK THEN TRUE
    ELSE IF uid = 0
    THEN LET m0 == BitAnd(access_mask, X_OK)
             m1 == m0 - BitAnd(m0, file_mode \div 64)
             m2 == m1 - BitAnd(m1, file_mode \div 8)
             m3 == m2 - BitAnd(m2, file_mode)
         IN m3 = 0
    ELSE IF uid = file_uid
    THEN access_mask - BitAnd(access_mask, file_mode \div 64) = 0
    ELSE access_mask - BitAnd(access_mask, file_mode) = 0
check_access(file_uid, file_gid, file_mode, uid, gid, access_mask) ==
    IF access_mask = F_OK THEN TRUE
    ELSE IF uid = 0
    THEN LET m0 == BitAnd(access_mask, X_OK)
             m1 == m0 - BitAnd(m0, file_mode \div 64)
             m2 == m1 - BitAnd(m1, file_mode \div 8)
             m3 == m2 - BitAnd(m2, file_mode)
         IN m3 = 0
    ELSE IF uid = file_uid
    THEN access_mask - BitAnd(access_mask, file_mode \div 64) = 0
    ELSE IF gid = file_gid
    THEN access_mask - BitAnd(access_mask, file_mode \div 8) = 0
    ELSE access_mask - BitAnd(access_mask, file_mode) = 0

\* "unimplemented" stands for the unimplemented!() panic
as_file_kind(mode) ==
    LET m == BitAnd(mode, S_IFMT)
    IN IF m = S_IFREG THEN "File"
       ELSE IF m = S_IFLNK THEN "Symlink"
       ELSE IF m = S_IFDIR THEN "Directory"
       ELSE "unimplemented"

\* the "sticky bit" test of unlink, rmdir and rename
sticky_denies(parent_attrs, uid, owner) ==
    /\ BitAnd(parent_attrs.mode, S_ISVTX) # 0
    /\ uid # 0
    /\ uid # parent_attrs.uid
    /\ uid # owner

\* what SFS keeps: st is a record of the rows, the content files and the
\* handle counter
Store == [inodes |-> inodes, superblock |-> superblock, contents |-> contents,
          next_file_handle |-> next_file_handle]

\* an allocator that does not store the number it returns
allocate_next_inode_forgets(st) ==
    LET current_inode == IF st.superblock = <<>> THEN FUSE_ROOT_ID
                         ELSE st.superblock[1]
    IN [st |-> st, inode |-> current_inode + 1]

allocate_next_inode(st) ==
    LET current_inode == IF st.superblock = <<>> THEN FUSE_ROOT_ID
                         ELSE st.superblock[1]
    IN [st |-> [st EXCEPT !.superblock = <<current_inode + 1>>],
        inode |-> current_inode + 1]

\* the handle is the counter with the two permission bits or-ed in; the
\* counter stays far below bit 62, so the assert! holds
allocate_next_file_handle(st, read, write) ==
    [st |-> [st EXCEPT !.next_file_handle = @ + 1],
     fh |-> [n |-> st.next_file_handle, read |-> read, write |-> write]]

get_directory_content(st, inode) ==
    IF inode \notin DOMAIN st.contents THEN Err("ENOENT")
    ELSE IF st.contents[inode].fmt = "dir"
    THEN Ok(deserialize_directory(st.contents[inode].data))
    ELSE Unwound

write_directory_content(st, inode, entries) ==
    [st EXCEPT !.contents =
        Put(@, inode, [fmt |-> "dir", data |-> serialize_directory(entries)])]

\* File::create and the write of a symlink's target: plain bytes
write_content(st, inode, bytes) ==
    [st EXCEPT !.contents = Put(@, inode, [fmt |-> "raw", data |-> bytes])]

get_inode(st, inode) ==
    IF inode \in DOMAIN st.inodes
    THEN Ok(bincode_deserialize(st.inodes[inode]))
    ELSE Err("ENOENT")

write_inode(st, inode) ==
    [st EXCEPT !.inodes = Put(@, inode.inode, bincode_serialize(inode))]

\* a handler under way: the store so far, and whether an unwrap() has failed
Step(st) == [st |-> st, panic |-> FALSE]
then_write_inode(x, inode) ==
    IF x.panic THEN x ELSE [x EXCEPT !.st = write_inode(@, inode)]
then_write_content(x, inode, bytes) ==
    IF x.panic THEN x ELSE [x EXCEPT !.st = write_content(@, inode, bytes)]
then_write_directory(x, inode, entries) ==
    IF x.panic THEN x
    ELSE [x EXCEPT !.st = write_directory_content(@, inode, entries)]

gc_inode(x, inode) ==
    IF x.panic THEN x
    ELSE IF inode.hardlinks = 0 /\ inode.open_file_handles = 0
    THEN LET deleted == [x.st EXCEPT !.inodes = Delete(@, inode.inode)]
         IN IF inode.inode \in DOMAIN deleted.contents
            THEN [x EXCEPT !.st = [deleted EXCEPT !.contents = Delete(@, inode.inode)]]
            ELSE [st |-> deleted, panic |-> TRUE]
    ELSE x

\* get_directory_content(dir).unwrap(), insert or remove, write back
entries_insert(x, dir, name, target) ==
    IF x.panic THEN x
    ELSE LET entries == get_directory_content(x.st, dir)
         IN IF entries.tag # "ok" THEN [x EXCEPT !.panic = TRUE]
            ELSE [x EXCEPT !.st =
                     write_directory_content(@, dir, Put(entries.v, name, target))]
\* a removal that writes the directory back as it read it
entries_remove_keeps(x, dir, name) ==
    IF x.panic THEN x
    ELSE LET entries == get_directory_content(x.st, dir)
         IN IF entries.tag # "ok" THEN [x EXCEPT !.panic = TRUE]
            ELSE [x EXCEPT !.st = write_directory_content(@, dir, entries.v)]
entries_remove(x, dir, name) ==
    IF x.panic THEN x
    ELSE LET entries == get_directory_content(x.st, dir)
         IN IF entries.tag # "ok" THEN [x EXCEPT !.panic = TRUE]
            ELSE [x EXCEPT !.st =
                     write_directory_content(@, dir, Delete(entries.v, name))]

\* the outcome of a handler: the store it leaves, and the reply ("panic" if
\* the handler unwound before replying)
Reply(st, code, ino) == [st |-> st, code |-> code, ino |-> ino]
Panic(st) == [st |-> st, code |-> "panic", ino |-> 0]
Finish(x, code, ino) == IF x.panic THEN Panic(x.st) ELSE Reply(x.st, code, ino)

\* hardlinks -= 1 on a u32: at 0 the checked build panics and the other
\* wraps to u32::MAX, written -1 here (so that adding 1 gives 0 again)
hardlinks_decrement(x, overflow_checks, hardlinks) ==
    IF hardlinks = 0 /\ overflow_checks THEN [x EXCEPT !.panic = TRUE] ELSE x

lookup_name(st, parent, name) ==
    LET entries == get_directory_content(st, parent)
    IN IF entries.tag # "ok" THEN entries
       ELSE IF name \in DOMAIN entries.v
       THEN get_inode(st, entries.v[name][1])
       ELSE Err("ENOENT")

\* an insert_link without its test for the name
insert_link_overwrites(st, req, parent, name, inode, kind) ==
    LET parent_attrs == get_inode(st, parent)
    IN IF parent_attrs.tag # "ok" THEN Reply(st, parent_attrs.code, 0)
       ELSE IF ~check_access(parent_attrs.v.uid, parent_attrs.v.gid,
                             parent_attrs.v.mode, req.uid, req.gid, W_OK)
       THEN Reply(st, "EACCES", 0)
       ELSE Finish(entries_insert(then_write_inode(Step(st), parent_attrs.v),
                                  parent, name, <<inode, kind>>),
                   "ok", inode)

insert_link(st, req, parent, name, inode, kind) ==
    LET found == lookup_name(st, parent, name)
        parent_attrs == get_inode(st, parent)
    IN IF found.tag = "panic" THEN Panic(st)
       ELSE IF found.tag = "ok" THEN Reply(st, "EEXIST", 0)
       ELSE IF parent_attrs.tag # "ok" THEN Reply(st, parent_attrs.code, 0)
       ELSE IF ~check_access(parent_attrs.v.uid, parent_attrs.v.gid,
                             parent_attrs.v.mode, req.uid, req.gid, W_OK)
       THEN Reply(st, "EACCES", 0)
       ELSE Finish(entries_insert(then_write_inode(Step(st), parent_attrs.v),
                                  parent, name, <<inode, kind>>),
                   "ok", inode)

DotEntries(inode, parent) ==
    Put(Put(<<>>, ".", <<inode, "Directory">>), "..", <<parent, "Directory">>)

SFS_init(st) ==
    IF get_inode(st, FUSE_ROOT_ID).tag # "ok"
    THEN LET root == InodeAttributes(FUSE_ROOT_ID, 0, 0, "Directory", 511, 2, 0, 0)
         IN write_directory_content(write_inode(st, root), FUSE_ROOT_ID,
                Put(<<>>, ".", <<FUSE_ROOT_ID, "Directory">>))
    ELSE st

SFS_lookup(st, req, parent, name) ==
    IF NameLen(name) > MAX_NAME_LENGTH THEN Reply(st, "ENAMETOOLONG", 0)
    ELSE LET parent_attrs == get_inode(st, parent)
         IN IF parent_attrs.tag # "ok" THEN Panic(st)
            ELSE IF ~check_access(parent_attrs.v.uid, parent_attrs.v.gid,
                                  parent_attrs.v.mode, req.uid, req.gid, X_OK)
            THEN Reply(st, "EACCES", 0)
            ELSE LET found == lookup_name(st, parent, name)
                 IN IF found.tag = "panic" THEN Panic(st)
                    ELSE IF found.tag = "ok" THEN Reply(st, "ok", found.v.inode)
                    ELSE Reply(st, found.code, 0)

SFS_mkdir(st, req, parent, name, mode) ==
    LET found == lookup_name(st, parent, name)
        parent_attrs == get_inode(st, parent)
    IN IF found.tag = "panic" THEN Panic(st)
       ELSE IF found.tag = "ok" THEN Reply(st, "EEXIST", 0)
       ELSE IF parent_attrs.tag # "ok" THEN Reply(st, parent_attrs.code, 0)
       ELSE IF ~check_access(parent_attrs.v.uid, parent_attrs.v.gid,
                             parent_attrs.v.mode, req.uid, req.gid, W_OK)
       THEN Reply(st, "EACCES", 0)
       ELSE LET s1 == write_inode(st, parent_attrs.v)
                mode1 == IF req.uid # 0 THEN BitClear(mode, S_ISUID + S_ISGID)
                         ELSE mode
                mode2 == IF BitAnd(parent_attrs.v.mode, S_ISGID) # 0
                         THEN BitOr(mode1, S_ISGID) ELSE mode1
                alloc == allocate_next_inode(s1)
                attrs == InodeAttributes(alloc.inode, 0, LIB_BLOCK_SIZE, "Directory",
                                         creation_mode(mode2), 2, req.uid,
                                         creation_gid(parent_attrs.v, req.gid))
                x1 == then_write_inode(Step(alloc.st), attrs)
                x2 == then_write_directory(x1, alloc.inode,
                                           DotEntries(alloc.inode, parent))
                x3 == entries_insert(x2, parent, name, <<alloc.inode, "Directory">>)
            IN Finish(x3, "ok", alloc.inode)

SFS_unlink(st, req, parent, name, overflow_checks) ==
    LET found == lookup_name(st, parent, name)
        parent_attrs == get_inode(st, parent)
    IN IF found.tag = "panic" THEN Panic(st)
       ELSE IF found.tag = "err" THEN Reply(st, found.code, 0)
       ELSE IF parent_attrs.tag # "ok" THEN Reply(st, parent_attrs.code, 0)
       ELSE IF ~check_access(parent_attrs.v.uid, parent_attrs.v.gid,
                             parent_attrs.v.mode, req.uid, req.gid, W_OK)
       THEN Reply(st, "EACCES", 0)
       ELSE IF sticky_denies(parent_attrs.v, req.uid, found.v.uid)
       THEN Reply(st, "EACCES", 0)
       ELSE LET attrs == [found.v EXCEPT !.hardlinks = @ - 1]
                x1 == then_write_inode(Step(st), parent_attrs.v)
                x2 == hardlinks_decrement(x1, overflow_checks, found.v.hardlinks)
                x3 == then_write_inode(x2, attrs)
                x4 == gc_inode(x3, attrs)
                x5 == entries_remove(x4, parent, name)
            IN Finish(x5, "ok", attrs.inode)

SFS_rmdir(st, req, parent, name) ==
    LET found == lookup_name(st, parent, name)
        parent_attrs == get_inode(st, parent)
    IN IF found.tag = "panic" THEN Panic(st)
       ELSE IF found.tag = "err" THEN Reply(st, found.code, 0)
       ELSE IF parent_attrs.tag # "ok" THEN Reply(st, parent_attrs.code, 0)
       ELSE LET own == get_directory_content(st, found.v.inode)
            IN IF own.tag # "ok" THEN Panic(st)
               \* "Directories always have a self and parent link"
               ELSE IF Cardinality(DOMAIN own.v) > 2 THEN Reply(st, "ENOTEMPTY", 0)
               ELSE IF ~check_access(parent_attrs.v.uid, parent_attrs.v.gid,
                                     parent_attrs.v.mode, req.uid, req.gid, W_OK)
               THEN Reply(st, "EACCES", 0)
               ELSE IF sticky_denies(parent_attrs.v, req.uid, found.v.uid)
               THEN Reply(st, "EACCES", 0)
               ELSE LET attrs == [found.v EXCEPT !.hardlinks = 0]
                        x1 == then_write_inode(Step(st), parent_attrs.v)
                        x2 == then_write_inode(x1, attrs)
                        x3 == gc_inode(x2, attrs)
                        x4 == entries_remove(x3, parent, name)
                    IN Finish(x4, "ok", attrs.inode)

SFS_symlink(st, req, parent, name, link) ==
    LET parent_attrs == get_inode(st, parent)
    IN IF parent_attrs.tag # "ok" THEN Reply(st, parent_attrs.code, 0)
       ELSE IF ~check_access(parent_attrs.v.uid, parent_attrs.v.gid,
                             parent_attrs.v.mode, req.uid, req.gid, W_OK)
       THEN Reply(st, "EACCES", 0)
       ELSE LET s1 == write_inode(st, parent_attrs.v)
                alloc == allocate_next_inode(s1)
                attrs == InodeAttributes(alloc.inode, 0, Len(link), "Symlink", 511,
                                         1, req.uid,
                                         creation_gid(parent_attrs.v, req.gid))
                linked == insert_link(alloc.st, req, parent, name, alloc.inode,
                                      "Symlink")
            IN IF linked.code # "ok" THEN linked
               ELSE Finish(then_write_content(
                               then_write_inode(Step(linked.st), attrs),
                               alloc.inode, link),
                           "ok", alloc.inode)

SFS_link(st, req, inode, new_parent, new_name) ==
    LET found == get_inode(st, inode)
    IN IF found.tag # "ok" THEN Reply(st, found.code, 0)
       ELSE LET linked == insert_link(st, req, new_parent, new_name, inode,
                                      found.v.kind)
            IN IF linked.code # "ok" THEN linked
               ELSE Reply(write_inode(linked.st,
                                      [found.v EXCEPT !.hardlinks = @ + 1]),
                          "ok", inode)

\* the RENAME_EXCHANGE branch of rename
rename_exchange(st, parent, name, new_parent, new_name, inode_attrs, parent_attrs, new_parent_attrs) ==
    LET new_inode_attrs == lookup_name(st, new_parent, new_name)
    IN IF new_inode_attrs.tag = "panic" THEN Panic(st)
       ELSE IF new_inode_attrs.tag = "err" THEN Reply(st, new_inode_attrs.code, 0)
       ELSE LET x1 == entries_insert(Step(st), new_parent, new_name,
                                     <<inode_attrs.inode, inode_attrs.kind>>)
                x2 == entries_insert(x1, parent, name,
                                     <<new_inode_attrs.v.inode, new_inode_attrs.v.kind>>)
                x3 == then_write_inode(x2, parent_attrs)
                x4 == then_write_inode(x3, new_parent_attrs)
                x5 == then_write_inode(x4, inode_attrs)
                x6 == then_write_inode(x5, new_inode_attrs.v)
                x7 == IF inode_attrs.kind = "Directory"
                      THEN entries_insert(x6, inode_attrs.inode, "..",
                                          <<new_parent, "Directory">>)
                      ELSE x6
                x8 == IF new_inode_attrs.v.kind = "Directory"
                      THEN entries_insert(x7, new_inode_attrs.v.inode, "..",
                                          <<parent, "Directory">>)
                      ELSE x7
            IN Finish(x8, "ok", inode_attrs.inode)

\* rename from "Only overwrite an existing directory if it's empty" on
rename_replace(st, req, parent, name, new_parent, new_name, inode_attrs, parent_attrs, new_parent_attrs, overflow_checks) ==
    LET existing == lookup_name(st, new_parent, new_name)
        target_content == get_directory_content(st, existing.v.inode)
    IN IF existing.tag = "panic" THEN Panic(st)
       ELSE IF existing.tag = "ok" /\ existing.v.kind = "Directory"
               /\ target_content.tag # "ok"
       THEN Panic(st)
       ELSE IF existing.tag = "ok" /\ existing.v.kind = "Directory"
               /\ Cardinality(DOMAIN target_content.v) > 2
       THEN Reply(st, "ENOTEMPTY", 0)
       ELSE IF /\ inode_attrs.kind = "Directory"
               /\ parent # new_parent
               /\ ~check_access(inode_attrs.uid, inode_attrs.gid, inode_attrs.mode,
                                req.uid, req.gid, W_OK)
       THEN Reply(st, "EACCES", 0)
       ELSE LET \* "If target already exists decrement its hardlink count"
                existing_inode_attrs ==
                    IF existing.v.kind = "Directory"
                    THEN [existing.v EXCEPT !.hardlinks = 0]
                    ELSE [existing.v EXCEPT !.hardlinks = @ - 1]
                e1 == entries_remove(Step(st), new_parent, new_name)
                e2 == IF existing.v.kind = "Directory" THEN e1
                      ELSE hardlinks_decrement(e1, overflow_checks,
                                               existing.v.hardlinks)
                e3 == then_write_inode(e2, existing_inode_attrs)
                e4 == gc_inode(e3, existing_inode_attrs)
                x0 == IF existing.tag = "ok" THEN e4 ELSE Step(st)
                x1 == entries_remove(x0, parent, name)
                x2 == entries_insert(x1, new_parent, new_name,
                                     <<inode_attrs.inode, inode_attrs.kind>>)
                x3 == then_write_inode(x2, parent_attrs)
                x4 == then_write_inode(x3, new_parent_attrs)
                x5 == then_write_inode(x4, inode_attrs)
                x6 == IF inode_attrs.kind = "Directory"
                      THEN entries_insert(x5, inode_attrs.inode, "..",
                                          <<new_parent, "Directory">>)
                      ELSE x5
            IN Finish(x6, "ok", inode_attrs.inode)

SFS_rename(st, req, parent, name, new_parent, new_name, flags, overflow_checks) ==
    LET found == lookup_name(st, parent, name)
        parent_attrs == get_inode(st, parent)
        new_parent_attrs == get_inode(st, new_parent)
        existing_attrs == lookup_name(st, new_parent, new_name)
    IN IF found.tag = "panic" THEN Panic(st)
       ELSE IF found.tag = "err" THEN Reply(st, found.code, 0)
       ELSE IF parent_attrs.tag # "ok" THEN Reply(st, parent_attrs.code, 0)
       ELSE IF ~check_access(parent_attrs.v.uid, parent_attrs.v.gid,
                             parent_attrs.v.mode, req.uid, req.gid, W_OK)
       THEN Reply(st, "EACCES", 0)
       ELSE IF sticky_denies(parent_attrs.v, req.uid, found.v.uid)
       THEN Reply(st, "EACCES", 0)
       ELSE IF new_parent_attrs.tag # "ok" THEN Reply(st, new_parent_attrs.code, 0)
       ELSE IF ~check_access(new_parent_attrs.v.uid, new_parent_attrs.v.gid,
                             new_parent_attrs.v.mode, req.uid, req.gid, W_OK)
       THEN Reply(st, "EACCES", 0)
       \* "Sticky bit" handling in new_parent
       ELSE IF BitAnd(new_parent_attrs.v.mode, S_ISVTX) # 0
               /\ existing_attrs.tag = "panic"
       THEN Panic(st)
       ELSE IF /\ BitAnd(new_parent_attrs.v.mode, S_ISVTX) # 0
               /\ existing_attrs.tag = "ok"
               /\ req.uid # 0
               /\ req.uid # new_parent_attrs.v.uid
               /\ req.uid # existing_attrs.v.uid
       THEN Reply(st, "EACCES", 0)
       ELSE IF BitAnd(flags, RENAME_EXCHANGE) # 0
       THEN rename_exchange(st, parent, name, new_parent, new_name, found.v,
                            parent_attrs.v, new_parent_attrs.v)
       ELSE rename_replace(st, req, parent, name, new_parent, new_name, found.v,
                           parent_attrs.v, new_parent_attrs.v, overflow_checks)

SFS_open(st, req, inode, flags) ==
    LET acc == BitAnd(flags, O_ACCMODE)
        access_mask == IF acc = O_RDONLY
                       THEN (IF BitAnd(flags, FMODE_EXEC) # 0 THEN X_OK ELSE R_OK)
                       ELSE IF acc = O_WRONLY THEN W_OK ELSE R_OK + W_OK
        attr == get_inode(st, inode)
    IN IF acc = O_RDONLY /\ BitAnd(flags, O_TRUNC) # 0 THEN Reply(st, "EACCES", 0)
       ELSE IF acc \notin {O_RDONLY, O_WRONLY, O_RDWR} THEN Reply(st, "EINVAL", 0)
       ELSE IF attr.tag # "ok" THEN Reply(st, attr.code, 0)
       ELSE IF check_access(attr.v.uid, attr.v.gid, attr.v.mode, req.uid, req.gid,
                            access_mask)
       THEN LET s1 == write_inode(st, [attr.v EXCEPT !.open_file_handles = @ + 1])
            IN Reply(allocate_next_file_handle(s1, acc # O_WRONLY, acc # O_RDONLY).st,
                     "ok", inode)
       ELSE Reply(st, "EACCES", 0)

\* the decrement is made on a copy that is never written back
SFS_release(st, inode, overflow_checks) ==
    LET attrs == get_inode(st, inode)
    IN IF attrs.tag = "ok" /\ attrs.v.open_file_handles = 0 /\ overflow_checks
       THEN Panic(st)
       ELSE Reply(st, "ok", inode)

SFS_create(st, req, parent, name, mode, flags) ==
    LET found == lookup_name(st, parent, name)
        acc == BitAnd(flags, O_ACCMODE)
        parent_attrs == get_inode(st, parent)
    IN IF found.tag = "panic" THEN Panic(st)
       ELSE IF found.tag = "ok" THEN Reply(st, "EEXIST", 0)
       ELSE IF acc \notin {O_RDONLY, O_WRONLY, O_RDWR} THEN Reply(st, "EINVAL", 0)
       ELSE IF parent_attrs.tag # "ok" THEN Reply(st, parent_attrs.code, 0)
       ELSE IF ~check_access(parent_attrs.v.uid, parent_attrs.v.gid,
                             parent_attrs.v.mode, req.uid, req.gid, W_OK)
       THEN Reply(st, "EACCES", 0)
       ELSE LET s1 == write_inode(st, parent_attrs.v)
                mode1 == IF req.uid # 0 THEN BitClear(mode, S_ISUID + S_ISGID)
                         ELSE mode
                alloc == allocate_next_inode(s1)
                kind == as_file_kind(mode1)
                attrs == InodeAttributes(alloc.inode, 1, 0, kind,
                                         creation_mode(mode1), 1, req.uid,
                                         creation_gid(parent_attrs.v, req.gid))
                x1 == then_write_content(then_write_inode(Step(alloc.st), attrs),
                                         alloc.inode, <<>>)
                x2 == IF kind = "Directory"
                      THEN then_write_directory(x1, alloc.inode,
                                                DotEntries(alloc.inode, parent))
                      ELSE x1
                x3 == entries_insert(x2, parent, name, <<alloc.inode, kind>>)
            IN IF kind = "unimplemented" THEN Panic(alloc.st)
               ELSE IF x3.panic THEN Panic(x3.st)
               ELSE Reply(allocate_next_file_handle(x3.st, acc # O_WRONLY,
                                                    acc # O_RDONLY).st,
                          "ok", alloc.inode)

S_IXUSR == 64
S_IXGRP == 8
S_IXOTH == 1
U16 == 65536

clear_suid_sgid(attr) ==
    LET mode1 == BitClear(attr.mode, S_ISUID)
    IN [attr EXCEPT !.mode = IF BitAnd(mode1, S_IXGRP) # 0
                             THEN BitClear(mode1, S_ISGID) ELSE mode1]

\* the Groups: line of /proc/<pid>/status: the requester is in its own group
get_groups(req) == {req.gid}

\* impl From<InodeAttributes> for fuser::FileAttr, without the constant fields
FileAttr(attrs) ==
    [ino |-> attrs.inode, size |-> attrs.size,
     blocks |-> (attrs.size + LIB_BLOCK_SIZE - 1) \div LIB_BLOCK_SIZE,
     kind |-> attrs.kind, perm |-> attrs.mode, nlink |-> attrs.hardlinks,
     uid |-> attrs.uid, gid |-> attrs.gid]

\* the replies that carry a payload: attributes, a byte count, bytes, entries
ReplyAttr(st, attrs) == [st |-> st, code |-> "ok", attr |-> FileAttr(attrs)]
ReplyWritten(st, n) == [st |-> st, code |-> "ok", written |-> n]
ReplyData(st, bytes) == [st |-> st, code |-> "ok", data |-> bytes]
ReplyDirectory(st, added) == [st |-> st, code |-> "ok", entries |-> added]
ReplyError(st, code) == [st |-> st, code |-> code]

SFS_getattr(st, inode) ==
    LET attrs == get_inode(st, inode)
    IN IF attrs.tag = "ok" THEN ReplyAttr(st, attrs.v) ELSE ReplyError(st, attrs.code)

\* an Option argument: Absent for None, Some(v) for a value
Absent == <<>>
Some(v) == <<v>>

\* the time checks of setattr, the same for atime and for mtime; the times
\* themselves are not among the fields of InodeAttributes
setattr_time(st, req, attrs, time) ==
    IF attrs.uid # req.uid /\ req.uid # 0 /\ time # "Now" THEN ReplyError(st, "EPERM")
    ELSE IF /\ attrs.uid # req.uid
            /\ ~check_access(attrs.uid, attrs.gid, attrs.mode, req.uid, req.gid, W_OK)
    THEN ReplyError(st, "EACCES")
    ELSE ReplyError(write_inode(st, attrs), "ok")

setattr_chown(st, req, attrs, uid, gid) ==
    IF gid # Absent /\ req.uid # 0 /\ gid[1] \notin get_groups(req)
    THEN ReplyError(st, "EPERM")
    ELSE IF uid # Absent /\ req.uid # 0 /\ ~(uid[1] = attrs.uid /\ req.uid = attrs.uid)
    THEN ReplyError(st, "EPERM")
    ELSE IF gid # Absent /\ req.uid # 0 /\ req.uid # attrs.uid
    THEN ReplyError(st, "EPERM")
    ELSE LET a1 == IF BitAnd(attrs.mode, S_IXUSR + S_IXGRP + S_IXOTH) # 0
                   THEN clear_suid_sgid(attrs) ELSE attrs
             a2 == IF uid # Absent
                   THEN [a1 EXCEPT !.uid = uid[1], !.mode = BitClear(@, S_ISUID)]
                   ELSE a1
             a3 == IF gid # Absent
                   THEN [a2 EXCEPT !.gid = gid[1],
                                   !.mode = IF req.uid # 0 THEN BitClear(@, S_ISGID)
                                            ELSE @]
                   ELSE a2
         IN ReplyAttr(write_inode(st, a3), a3)

\* size is accepted and not acted on
SFS_setattr(st, req, inode, mode, uid, gid, size, atime, mtime) ==
    LET got == get_inode(st, inode)
        attrs == got.v
    IN IF got.tag # "ok" THEN ReplyError(st, got.code)
       ELSE IF mode # Absent
       THEN IF req.uid # 0 /\ req.uid # attrs.uid THEN ReplyError(st, "EPERM")
            ELSE LET a1 == [attrs EXCEPT !.mode =
                               IF /\ req.uid # 0
                                  /\ req.gid # attrs.gid
                                  /\ attrs.gid \notin get_groups(req)
                               THEN BitClear(mode[1], S_ISGID) % U16
                               ELSE mode[1] % U16]
                 IN ReplyAttr(write_inode(st, a1), a1)
       ELSE IF uid # Absent \/ gid # Absent THEN setattr_chown(st, req, attrs, uid, gid)
       ELSE LET r1 == IF atime # Absent THEN setattr_time(st, req, attrs, atime[1])
                      ELSE ReplyError(st, "ok")
                r2 == IF mtime # Absent THEN setattr_time(r1.st, req, attrs, mtime[1])
                      ELSE ReplyError(r1.st, "ok")
                again == get_inode(r2.st, inode)
            IN IF r1.code # "ok" THEN r1
               ELSE IF r2.code # "ok" THEN r2
               ELSE IF again.tag # "ok" THEN ReplyError(r2.st, "panic")
               ELSE ReplyAttr(r2.st, again.v)

\* a handle as allocate_next_file_handle builds it
check_file_handle_read(file_handle) == file_handle.read
check_file_handle_write(file_handle) == file_handle.write

\* seek to offset and write_all: a gap past the old end reads as zeroes
file_write(bytes, offset, data) ==
    LET end == IF data = <<>> THEN Len(bytes)
               ELSE IF offset + Len(data) > Len(bytes) THEN offset + Len(data)
               ELSE Len(bytes)
    IN [k \in 1 .. end |->
          IF k > offset /\ k <= offset + Len(data) THEN data[k - offset]
          ELSE IF k <= Len(bytes) THEN bytes[k] ELSE 0]

SFS_read(st, inode, fh, offset, size) ==
    IF offset < 0 THEN ReplyError(st, "panic")
    ELSE IF ~check_file_handle_read(fh) THEN ReplyError(st, "EACCES")
    ELSE IF inode \in DOMAIN st.contents
    THEN LET bytes == st.contents[inode].data
             file_size == Len(bytes)
             read_size == Min(size, IF file_size > offset THEN file_size - offset
                                    ELSE 0)
         IN ReplyData(st, SubSeq(bytes, offset + 1, offset + read_size))
    ELSE ReplyError(st, "ENOENT")

\* a write that sets size to the end of the written range, whatever it was
SFS_write_sets_end(st, inode, fh, offset, data) ==
    IF offset < 0 THEN ReplyError(st, "panic")
    ELSE IF ~check_file_handle_write(fh) THEN ReplyError(st, "EACCES")
    ELSE IF inode \in DOMAIN st.contents
    THEN LET old == st.contents[inode]
             s1 == [st EXCEPT !.contents =
                       Put(@, inode, [fmt |-> IF data = <<>> THEN old.fmt ELSE "raw",
                                      data |-> file_write(old.data, offset, data)])]
             got == get_inode(s1, inode)
             a1 == [got.v EXCEPT !.size = Len(data) + offset]
         IN IF got.tag # "ok" THEN ReplyError(s1, "panic")
            ELSE ReplyWritten(write_inode(s1, clear_suid_sgid(a1)), Len(data))
    ELSE ReplyError(st, "EBADF")

\* bytes written into a directory's file leave it no longer a serialized
\* DirectoryDescriptor
SFS_write(st, inode, fh, offset, data) ==
    IF offset < 0 THEN ReplyError(st, "panic")
    ELSE IF ~check_file_handle_write(fh) THEN ReplyError(st, "EACCES")
    ELSE IF inode \in DOMAIN st.contents
    THEN LET old == st.contents[inode]
             s1 == [st EXCEPT !.contents =
                       Put(@, inode, [fmt |-> IF data = <<>> THEN old.fmt ELSE "raw",
                                      data |-> file_write(old.data, offset, data)])]
             got == get_inode(s1, inode)
             a1 == IF Len(data) + offset > got.v.size
                   THEN [got.v EXCEPT !.size = Len(data) + offset]
                   ELSE got.v
         IN IF got.tag # "ok" THEN ReplyError(s1, "panic")
            ELSE ReplyWritten(write_inode(s1, clear_suid_sgid(a1)), Len(data))
    ELSE ReplyError(st, "EBADF")

\* a readdir whose entries carry their own position, not that of the next
SFS_readdir_own_offset(st, inode, offset, room) ==
    LET entries == get_directory_content(st, inode)
        listed == serialize_directory(entries.v)
        rest == SubSeq(listed, offset + 1, Len(listed))
    IN IF offset < 0 THEN ReplyError(st, "panic")
       ELSE IF entries.tag = "panic" THEN ReplyError(st, "panic")
       ELSE IF entries.tag # "ok" THEN ReplyError(st, entries.code)
       ELSE ReplyDirectory(st,
               [index \in 1 .. Min(room, Len(rest)) |->
                   [ino |-> rest[index][2][1], offset |-> offset + (index - 1),
                    kind |-> rest[index][2][2], name |-> rest[index][1]]])

\* reply.add takes entries until the buffer is full: room entries fit
SFS_readdir(st, inode, offset, room) ==
    LET entries == get_directory_content(st, inode)
        listed == serialize_directory(entries.v)
        rest == SubSeq(listed, offset + 1, Len(listed))
    IN IF offset < 0 THEN ReplyError(st, "panic")
       ELSE IF entries.tag = "panic" THEN ReplyError(st, "panic")
       ELSE IF entries.tag # "ok" THEN ReplyError(st, entries.code)
       ELSE ReplyDirectory(st,
               [index \in 1 .. Min(room, Len(rest)) |->
                   [ino |-> rest[index][2][1], offset |-> offset + (index - 1) + 1,
                    kind |-> rest[index][2][2], name |-> rest[index][1]]])

SFS_access(st, req, inode, mask) ==
    LET attr == get_inode(st, inode)
    IN IF attr.tag # "ok" THEN ReplyError(st, attr.code)
       ELSE IF check_access(attr.v.uid, attr.v.gid, attr.v.mode, req.uid, req.gid, mask)
       THEN ReplyError(st, "ok")
       ELSE ReplyError(st, "EACCES")

LinkTarget == <<97>>
MkdirModes == {493}
CreateModes == {S_IFREG + 420}
CreateFlags == {O_RDWR, O_ACCMODE}
OpenFlags == {O_RDONLY, O_WRONLY, O_RDWR, O_ACCMODE, O_TRUNC, FMODE_EXEC}
RenameFlags == {0, RENAME_EXCHANGE}

InitFS ==
    /\ BcIdle
    /\ IoIdle
    /\ crashed = FALSE
    /\ FsIdle
    /\ IcIdle
    /\ UnitIdle

Serving == mounted /\ ~crashed
\* the bounds of the two counters
CanAllocateInode ==
    (IF superblock = <<>> THEN FUSE_ROOT_ID ELSE superblock[1]) < MaxIno
CanAllocateHandle == next_file_handle <= MaxHandles
\* link(2) is refused for a directory before it reaches the file system,
\* and stops here at MaxLinks links
CanLink(inode) ==
    inode \in DOMAIN inodes =>
        /\ bincode_deserialize(inodes[inode]).kind # "Directory"
        /\ bincode_deserialize(inodes[inode]).hardlinks < MaxLinks
\* the two builds differ only where a link count of 0 is decremented
Builds(parent, name) ==
    LET target == lookup_name(Store, parent, name)
    IN IF target.tag = "ok" /\ target.v.hardlinks = 0 THEN BOOLEAN ELSE {TRUE}
OpenCount(ino) == IF ino \in DOMAIN opened THEN opened[ino] ELSE 0

StoreSet(st) ==
    /\ inodes' = st.inodes
    /\ superblock' = st.superblock
    /\ contents' = st.contents
    /\ next_file_handle' = st.next_file_handle
Replied(r) ==
    /\ StoreSet(r.st)
    /\ crashed' = (r.code = "panic")

\* the number a handler that replied ok has handed out
Issued(r) == issued' = IF r.code = "ok" THEN Append(issued, r.ino) ELSE issued

FsInit ==
    /\ ~mounted
    /\ ~crashed
    /\ StoreSet(SFS_init(Store))
    /\ mounted' = TRUE
    /\ UNCHANGED <<icVars, unitVars, bcVars, ioVars, crashed, placed, opened, zeroed, issued, session>>

Lookup(req, parent, name) ==
    /\ Serving
    /\ Replied(SFS_lookup(Store, req, parent, name))
    /\ UNCHANGED <<icVars, unitVars, bcVars, ioVars, mounted, placed, opened, zeroed, issued, session>>

Mkdir(req, parent, name, mode) ==
    /\ Serving
    /\ CanAllocateInode
    /\ LET r == SFS_mkdir(Store, req, parent, name, mode)
       IN /\ Replied(r)
          /\ placed' = IF r.code = "ok" THEN placed \cup {<<parent, name>>}
                       ELSE placed
          /\ Issued(r)
    /\ UNCHANGED <<icVars, unitVars, bcVars, ioVars, mounted, opened, zeroed, session>>

Create(req, parent, name, mode, flags) ==
    /\ Serving
    /\ CanAllocateInode
    /\ CanAllocateHandle
    /\ LET r == SFS_create(Store, req, parent, name, mode, flags)
       IN /\ Replied(r)
          /\ placed' = IF r.code = "ok" THEN placed \cup {<<parent, name>>}
                       ELSE placed
          /\ Issued(r)
          /\ opened' = IF r.code = "ok" THEN Put(opened, r.ino, 1) ELSE opened
    /\ UNCHANGED <<icVars, unitVars, bcVars, ioVars, mounted, zeroed, session>>

Symlink(req, parent, name, link) ==
    /\ Serving
    /\ CanAllocateInode
    /\ LET r == SFS_symlink(Store, req, parent, name, link)
       IN /\ Replied(r)
          /\ placed' = IF r.code = "ok" THEN placed \cup {<<parent, name>>}
                       ELSE placed
          /\ Issued(r)
    /\ UNCHANGED <<icVars, unitVars, bcVars, ioVars, mounted, opened, zeroed, session>>

Link(req, inode, new_parent, new_name) ==
    /\ Serving
    /\ CanLink(inode)
    /\ LET r == SFS_link(Store, req, inode, new_parent, new_name)
       IN /\ Replied(r)
          /\ placed' = IF r.code = "ok" THEN placed \cup {<<new_parent, new_name>>}
                       ELSE placed
          /\ zeroed' = IF r.code = "ok" THEN zeroed \ {inode} ELSE zeroed
    /\ UNCHANGED <<icVars, unitVars, bcVars, ioVars, mounted, opened, issued, session>>

Unlink(req, parent, name, overflow_checks) ==
    /\ Serving
    /\ LET target == lookup_name(Store, parent, name)
           r == SFS_unlink(Store, req, parent, name, overflow_checks)
       IN /\ Replied(r)
          /\ placed' = IF r.code = "ok" THEN placed \ {<<parent, name>>}
                       ELSE placed
          /\ zeroed' = IF r.code = "ok" /\ target.v.hardlinks = 1
                       THEN zeroed \cup {r.ino} ELSE zeroed
    /\ UNCHANGED <<icVars, unitVars, bcVars, ioVars, mounted, opened, issued, session>>

Rmdir(req, parent, name) ==
    /\ Serving
    /\ LET r == SFS_rmdir(Store, req, parent, name)
       IN /\ Replied(r)
          /\ placed' = IF r.code = "ok" THEN placed \ {<<parent, name>>}
                       ELSE placed
    /\ UNCHANGED <<icVars, unitVars, bcVars, ioVars, mounted, opened, zeroed, issued, session>>

Rename(req, parent, name, new_parent, new_name, flags, overflow_checks) ==
    /\ Serving
    /\ LET r == SFS_rename(Store, req, parent, name, new_parent, new_name, flags,
                           overflow_checks)
       IN /\ Replied(r)
          /\ placed' = IF r.code = "ok" /\ BitAnd(flags, RENAME_EXCHANGE) = 0
                       THEN (placed \ {<<parent, name>>})
                               \cup {<<new_parent, new_name>>}
                       ELSE placed
    /\ UNCHANGED <<icVars, unitVars, bcVars, ioVars, mounted, opened, zeroed, issued, session>>

Open(req, inode, flags) ==
    /\ Serving
    /\ CanAllocateHandle
    /\ LET r == SFS_open(Store, req, inode, flags)
       IN /\ Replied(r)
          /\ opened' = IF r.code = "ok" THEN Put(opened, inode, OpenCount(inode) + 1)
                       ELSE opened
    /\ UNCHANGED <<icVars, unitVars, bcVars, ioVars, mounted, placed, zeroed, issued, session>>

\* the kernel releases a handle it holds, once
Release(inode, overflow_checks) ==
    /\ Serving
    /\ OpenCount(inode) > 0
    /\ Replied(SFS_release(Store, inode, overflow_checks))
    /\ opened' = Put(opened, inode, OpenCount(inode) - 1)
    /\ UNCHANGED <<icVars, unitVars, bcVars, ioVars, mounted, placed, zeroed, issued, session>>

NextFS ==
    \/ FsInit
    \/ \E req \in Reqs, parent \in Inos, name \in AllNames :
          Lookup(req, parent, name)
    \/ \E req \in Reqs, parent \in Inos, name \in Names, mode \in MkdirModes :
          Mkdir(req, parent, name, mode)
    \/ \E req \in Reqs, parent \in Inos, name \in Names, mode \in CreateModes,
          flags \in CreateFlags :
          Create(req, parent, name, mode, flags)
    \/ \E req \in Reqs, parent \in Inos, name \in Names :
          Symlink(req, parent, name, LinkTarget)
    \/ \E req \in Reqs, inode \in Inos, new_parent \in Inos, new_name \in Names :
          Link(req, inode, new_parent, new_name)
    \/ \E req \in Reqs, parent \in Inos, name \in Names :
          \E overflow_checks \in Builds(parent, name) :
             Unlink(req, parent, name, overflow_checks)
    \/ \E req \in Reqs, parent \in Inos, name \in Names :
          Rmdir(req, parent, name)
    \/ \E req \in Reqs, parent \in Inos, name \in Names, new_parent \in Inos,
          new_name \in Names, flags \in RenameFlags :
          \E overflow_checks \in Builds(new_parent, new_name) :
             Rename(req, parent, name, new_parent, new_name, flags, overflow_checks)
    \/ \E req \in Reqs, inode \in Inos, flags \in OpenFlags :
          Open(req, inode, flags)
    \/ \E inode \in Inos, overflow_checks \in BOOLEAN :
          Release(inode, overflow_checks)

SpecFS == InitFS /\ [][NextFS]_vars

(***************************************************************************)
(* The handlers of src/lib.rs that read and write files and attributes,    *)
(* over the files that create makes.                                       *)
(***************************************************************************)

MaxRoom == 2

FileHandles == {[n |-> 1, read |-> r, write |-> w] : r \in BOOLEAN, w \in BOOLEAN}
FileOffsets == {0, 2}
WriteData == {<<>>, <<98>>}
ReadSizes == {0, 1, 4}
AccessMasks == {F_OK, R_OK, W_OK, X_OK}
SetattrArgs == [mode : {Absent, Some(384), Some(S_ISUID + 493)}, uid : {Absent, Some(1)}, gid : {Absent, Some(1)}, size : {Absent, Some(0)}, atime : {Absent, Some("Now")}, mtime : {Absent, Some("Time")}]

\* write(2) on a directory is refused before it reaches the file system
IsDirectoryFile(inode) ==
    inode \in DOMAIN contents /\ contents[inode].fmt = "dir"

CreateFile(req, parent, name, mode, flags) ==
    /\ Serving
    /\ CanAllocateInode
    /\ LET r == SFS_create(Store, req, parent, name, mode, flags)
       IN /\ Replied(r)
          /\ placed' = IF r.code = "ok" THEN placed \cup {<<parent, name>>}
                       ELSE placed
          /\ Issued(r)
          /\ opened' = IF r.code = "ok" THEN Put(opened, r.ino, 1) ELSE opened
    /\ UNCHANGED <<icVars, unitVars, bcVars, ioVars, mounted, zeroed, session>>

Getattr(inode) ==
    /\ Serving
    /\ Replied(SFS_getattr(Store, inode))
    /\ UNCHANGED <<icVars, unitVars, bcVars, ioVars, mounted, placed, opened, zeroed, issued, session>>

Setattr(req, inode, a) ==
    /\ Serving
    /\ Replied(SFS_setattr(Store, req, inode, a.mode, a.uid, a.gid, a.size, a.atime, a.mtime))
    /\ UNCHANGED <<icVars, unitVars, bcVars, ioVars, mounted, placed, opened, zeroed, issued, session>>

Read(inode, fh, offset, size) ==
    /\ Serving
    /\ Replied(SFS_read(Store, inode, fh, offset, size))
    /\ UNCHANGED <<icVars, unitVars, bcVars, ioVars, mounted, placed, opened, zeroed, issued, session>>

Write(inode, fh, offset, data) ==
    /\ Serving
    /\ ~IsDirectoryFile(inode)
    /\ Replied(SFS_write(Store, inode, fh, offset, data))
    /\ UNCHANGED <<icVars, unitVars, bcVars, ioVars, mounted, placed, opened, zeroed, issued, session>>

Readdir(inode, offset, room) ==
    /\ Serving
    /\ Replied(SFS_readdir(Store, inode, offset, room))
    /\ UNCHANGED <<icVars, unitVars, bcVars, ioVars, mounted, placed, opened, zeroed, issued, session>>

Access(req, inode, mask) ==
    /\ Serving
    /\ Replied(SFS_access(Store, req, inode, mask))
    /\ UNCHANGED <<icVars, unitVars, bcVars, ioVars, mounted, placed, opened, zeroed, issued, session>>

NextRW ==
    \/ FsInit
    \/ \E req \in Reqs, parent \in Inos, name \in Names, mode \in CreateModes, flags \in CreateFlags :
          CreateFile(req, parent, name, mode, flags)
    \/ \E inode \in Inos : Getattr(inode)
    \/ \E req \in Reqs, inode \in Inos, a \in SetattrArgs : Setattr(req, inode, a)
    \/ \E inode \in Inos, fh \in FileHandles, offset \in FileOffsets, size \in ReadSizes :
          Read(inode, fh, offset, size)
    \/ \E inode \in Inos, fh \in FileHandles, offset \in FileOffsets, data \in WriteData :
          Write(inode, fh, offset, data)
    \/ \E inode \in Inos, offset \in 0 .. MaxRoom, room \in 1 .. MaxRoom :
          Readdir(inode, offset, room)
    \/ \E req \in Reqs, inode \in Inos, mask \in AccessMasks : Access(req, inode, mask)

SpecRW == InitFS /\ [][NextRW]_vars

(***************************************************************************)
(* Mounting again: the process ends, by unmount or by a panic, and a new   *)
(* SFS is built over the same rocksdb and data directory.                  *)
(***************************************************************************)
\* SFS::new: the handle counter starts at 1, the rows are those of the db
SFS_new(st) == [st EXCEPT !.next_file_handle = 1]

Mount ==
    /\ ~mounted
    /\ StoreSet(SFS_init(SFS_new(Store)))
    /\ mounted' = TRUE
    /\ UNCHANGED <<icVars, unitVars, bcVars, ioVars, crashed, placed, opened, zeroed, issued, session>>

\* the process ends: its handles are gone, the db and the files stay
Unmount ==
    /\ mounted
    /\ mounted' = FALSE
    /\ crashed' = FALSE
    /\ opened' = <<>>
    /\ UNCHANGED <<icVars, unitVars, bcVars, ioVars, inodes, superblock, contents,
                   next_file_handle, placed, zeroed, issued, session>>

NextMount ==
    \/ Mount
    \/ Unmount
    \/ \E req \in Reqs, parent \in Inos, name \in Names, mode \in MkdirModes :
          Mkdir(req, parent, name, mode)
    \/ \E req \in Reqs, parent \in Inos, name \in Names, mode \in CreateModes,
          flags \in CreateFlags :
          CreateFile(req, parent, name, mode, flags)
    \/ \E req \in Reqs, parent \in Inos, name \in Names :
          Symlink(req, parent, name, LinkTarget)
    \/ \E req \in Reqs, parent \in Inos, name \in Names :
          \E overflow_checks \in Builds(parent, name) :
             Unlink(req, parent, name, overflow_checks)
    \/ \E req \in Reqs, parent \in Inos, name \in Names :
          Rmdir(req, parent, name)

SpecMount == InitFS /\ [][NextMount]_vars

(***************************************************************************)
(* The session: threads of the kernel deliver requests, which wait until   *)
(* the session calls the handler.  Every handler takes &mut self, so a     *)
(* call begins only when no other call on the SFS is under way.            *)
(***************************************************************************)
Threads == {1, 2}
Requests == {[op |-> o, name |-> n] : o \in {"mkdir", "symlink", "rmdir"}, n \in Names}
Waiting == [at |-> "idle", req |-> None, seen |-> None]

\* a call of a handler that goes around the &mut self borrow
Exclusive_unchecked(s) == TRUE
\* no call of a handler holds the &mut self borrow of the SFS
Exclusive(s) == \A t \in DOMAIN s : s[t].at # "handling"

\* the handler of a request, on the root directory
SFS_handle(st, req, q) ==
    IF q.op = "mkdir" THEN SFS_mkdir(st, req, FUSE_ROOT_ID, q.name, 493)
    ELSE IF q.op = "symlink" THEN SFS_symlink(st, req, FUSE_ROOT_ID, q.name, LinkTarget)
    ELSE SFS_rmdir(st, req, FUSE_ROOT_ID, q.name)

InitSerial ==
    /\ BcIdle
    /\ IoIdle
    /\ IcIdle
    /\ UnitIdle
    /\ crashed = FALSE
    /\ inodes = <<>>
    /\ superblock = <<>>
    /\ contents = <<>>
    /\ next_file_handle = 1
    /\ mounted = FALSE
    /\ placed = {}
    /\ opened = <<>>
    /\ zeroed = {}
    /\ issued = <<>>
    /\ session = [t \in Threads |-> Waiting]

\* a thread delivers a request
Deliver(t, q) ==
    /\ Serving
    /\ session[t].at = "idle"
    /\ session' = [session EXCEPT ![t] = [at |-> "queued", req |-> q, seen |-> None]]
    /\ UNCHANGED <<icVars, unitVars, bcVars, ioVars, crashed, inodes, superblock, contents,
                   next_file_handle, mounted, placed, opened, zeroed, issued>>

\* the session calls the handler of a delivered request; seen is the store
\* the handler finds
Dispatch(t) ==
    /\ Serving
    /\ session[t].at = "queued"
    /\ Exclusive(session)
    /\ session[t].req.op # "rmdir" => CanAllocateInode
    /\ session' = [session EXCEPT ![t].at = "handling", ![t].seen = Store]
    /\ UNCHANGED <<icVars, unitVars, bcVars, ioVars, crashed, inodes, superblock, contents,
                   next_file_handle, mounted, placed, opened, zeroed, issued>>

\* the handler runs to its reply
Complete(t, req) ==
    /\ Serving
    /\ session[t].at = "handling"
    /\ LET q == session[t].req
           r == SFS_handle(Store, req, q)
       IN /\ Replied(r)
          /\ placed' = IF r.code # "ok" THEN placed
                       ELSE IF q.op = "rmdir" THEN placed \ {<<FUSE_ROOT_ID, q.name>>}
                       ELSE placed \cup {<<FUSE_ROOT_ID, q.name>>}
          /\ issued' = IF r.code = "ok" /\ q.op # "rmdir" THEN Append(issued, r.ino)
                       ELSE issued
    /\ session' = [session EXCEPT ![t] = Waiting]
    /\ UNCHANGED <<icVars, unitVars, bcVars, ioVars, mounted, opened, zeroed>>

NextSerial ==
    \/ FsInit
    \/ \E t \in Threads, q \in Requests : Deliver(t, q)
    \/ \E t \in Threads : Dispatch(t)
    \/ \E t \in Threads, req \in Reqs : Complete(t, req)

SpecSerial == InitSerial /\ [][NextSerial]_vars

(***************************************************************************)
(* InodeCache (src/inode.rs): an LRU of Inode values over the key-value    *)
(* store.  A state of the layer is a record s = [cache, kv, writes, left]. *)
(***************************************************************************)

InodeCapacity == 2
InodeIds == {1, 2, 3}
NlinkChoices == {0, 1, 2}
\* inode 1 is a directory, the others are regular files
KindOf(ino) == IF ino = 1 THEN "Directory" ELSE "RegularFile"

\* the fields of Attrs that the cache reads or that tell two versions of an
\* inode apart; the other fields are carried along unchanged
Attrs(ino, kind, nlink) == [ino |-> ino, size |-> 0, kind |-> kind, nlink |-> nlink]
\* bincode writes the fields in their order, without names
Attrs_serialize(attrs) == <<attrs.ino, attrs.size, attrs.kind, attrs.nlink>>
Attrs_deserialize(data) ==
    [ino |-> data[1], size |-> data[2], kind |-> data[3], nlink |-> data[4]]
\* bincode::deserialize is Ok when the bytes hold every field, and Err on
\* bytes that end early
Attrs_decodes(data) == Len(data) = Len(Attrs_serialize(Attrs(1, "Directory", 1)))
\* a row cut short: the first fields of a serialized Attrs
TruncatedRow(ino) == SubSeq(Attrs_serialize(Attrs(ino, KindOf(ino), 1)), 1, 2)

\* crate::ffi::KVStore: a map from keys to values; get of an absent key
\* gives the empty string
KVStore_put(m, key, value) == Put(m, key, value)
KVStore_remove(m, key) == Delete(m, key)
KVStore_get(m, key) == IF key \in DOMAIN m THEN m[key] ELSE <<>>

Inode(attrs, dirty) == [attrs |-> attrs, dirty |-> dirty]

Inode_flush(s, inode) ==
    IF inode.attrs.nlink > 0
    THEN [s EXCEPT !.kv = KVStore_put(@, inode.attrs.ino, Attrs_serialize(inode.attrs)),
                   !.writes = Append(@, inode.attrs.ino)]
    ELSE [s EXCEPT !.kv = KVStore_remove(@, inode.attrs.ino),
                   !.writes = Append(@, inode.attrs.ino)]

\* an Inode dropped without its flush
Inode_drop_forgets(s, inode) ==
    [s EXCEPT !.left = Append(@, [inode |-> inode, wrote |-> FALSE])]
\* impl Drop for Inode; left records the value dropped and whether the drop
\* wrote to the store
Inode_drop(s, inode) ==
    LET s1 == IF inode.dirty THEN Inode_flush(s, inode) ELSE s
    IN [s1 EXCEPT !.left = Append(@, [inode |-> inode,
                                      wrote |-> Len(s1.writes) > Len(s.writes)])]

RECURSIVE DropInodes(_, _)
DropInodes(s, is) ==
    IF is = <<>> THEN s ELSE DropInodes(Inode_drop(s, Head(is)), Tail(is))

\* self.cache.put(ino, inode) with the drops it causes
InodeCache_put(s, ino, inode) ==
    LET r == LruPut(s.cache, ino, inode, InodeCapacity)
    IN DropInodes([s EXCEPT !.cache = r.cache], r.dropped)

InodeCache_insert(s, attrs) ==
    LET inode == Inode(attrs, TRUE)
        s1 == IF attrs.kind = "Directory" THEN Inode_flush(s, inode) ELSE s
    IN InodeCache_put(s1, attrs.ino, inode)

\* read and modify: [s |-> the state after, code |-> "ok" or the error]

\* a read that takes a row it cannot decode for an absent one
InodeCache_read_skips_decode(s, ino) ==
    IF ino \in LruKeys(s.cache)
    THEN [s |-> [s EXCEPT !.cache = LruTouch(@, ino)], code |-> "ok"]
    ELSE LET data == KVStore_get(s.kv, ino)
         IN IF data # <<>> /\ Attrs_decodes(data)
            THEN [s |-> InodeCache_put(s, ino, Inode(Attrs_deserialize(data), FALSE)),
                  code |-> "ok"]
            ELSE [s |-> s, code |-> "ENOENT"]
InodeCache_read(s, ino) ==
    IF ino \in LruKeys(s.cache)
    THEN [s |-> [s EXCEPT !.cache = LruTouch(@, ino)], code |-> "ok"]
    ELSE LET data == KVStore_get(s.kv, ino)
         IN IF data # <<>>
            THEN IF Attrs_decodes(data)
                 THEN [s |-> InodeCache_put(s, ino,
                                            Inode(Attrs_deserialize(data), FALSE)),
                       code |-> "ok"]
                 ELSE [s |-> s, code |-> "EIO"]
            ELSE [s |-> s, code |-> "ENOENT"]

\* f sets the link count to nlink
InodeCache_modify(s, ino, nlink) ==
    IF ino \in LruKeys(s.cache)
    THEN LET c == LruTouch(s.cache, ino)
             old == LruValue(s.cache, ino)
             inode == Inode([old.attrs EXCEPT !.nlink = nlink], TRUE)
             s1 == [s EXCEPT !.cache = LruSet(c, ino, inode)]
         IN [s |-> IF inode.attrs.kind = "Directory" THEN Inode_flush(s1, inode)
                   ELSE s1,
             code |-> "ok"]
    ELSE LET data == KVStore_get(s.kv, ino)
         IN IF data # <<>>
            THEN IF Attrs_decodes(data)
                 THEN LET inode == Inode([Attrs_deserialize(data)
                                             EXCEPT !.nlink = nlink], TRUE)
                          s1 == IF inode.attrs.kind = "Directory"
                                THEN Inode_flush(s, inode) ELSE s
                      IN [s |-> InodeCache_put(s1, ino, inode), code |-> "ok"]
                 ELSE [s |-> s, code |-> "EIO"]
            ELSE [s |-> s, code |-> "ENOENT"]

\* self.cache.pop(&ino): the value, if any, is dropped
InodeCache_flush_inode(s, ino) ==
    IF ino \in LruKeys(s.cache)
    THEN Inode_drop([s EXCEPT !.cache = LruWithout(@, ino)], LruValue(s.cache, ino))
    ELSE s

\* self.cache.clear(): the values are dropped, least recently used first
InodeCache_flush(s) ==
    DropInodes([s EXCEPT !.cache = <<>>],
               [i \in 1 .. Len(s.cache) |-> s.cache[Len(s.cache) + 1 - i][2]])

\* the layer before an operation: the per-operation logs are empty
IcState == [cache |-> icache, kv |-> kv, writes |-> <<>>, left |-> <<>>]
IcSet(s) ==
    /\ icache' = s.cache
    /\ kv' = s.kv
    /\ left' = s.left

\* the store handed to InodeCache::new: empty, or holding one row that an
\* earlier run left cut short
StoresAtStart == {<<>>} \cup {KVStore_put(<<>>, ino, TruncatedRow(ino)) : ino \in InodeIds}

InitIC ==
    /\ BcIdle
    /\ IoIdle
    /\ crashed = FALSE
    /\ FsIdle
    /\ UnitIdle
    /\ icache = <<>>
    /\ left = <<>>
    /\ kv \in StoresAtStart

\* insert of the attrs of ino, with nlink links
IcInsert(ino, nlink) ==
    /\ IcSet(InodeCache_insert(IcState, Attrs(ino, KindOf(ino), nlink)))
    /\ UNCHANGED <<bcVars, ioVars, crashed, fsVars, unitVars>>
IcRead(ino) ==
    /\ IcSet(InodeCache_read(IcState, ino).s)
    /\ UNCHANGED <<bcVars, ioVars, crashed, fsVars, unitVars>>
IcModify(ino, nlink) ==
    /\ IcSet(InodeCache_modify(IcState, ino, nlink).s)
    /\ UNCHANGED <<bcVars, ioVars, crashed, fsVars, unitVars>>
IcFlushInode(ino) ==
    /\ IcSet(InodeCache_flush_inode(IcState, ino))
    /\ UNCHANGED <<bcVars, ioVars, crashed, fsVars, unitVars>>
IcFlush ==
    /\ IcSet(InodeCache_flush(IcState))
    /\ UNCHANGED <<bcVars, ioVars, crashed, fsVars, unitVars>>

NextIC ==
    \/ \E ino \in InodeIds, nlink \in NlinkChoices : IcInsert(ino, nlink)
    \/ \E ino \in InodeIds : IcRead(ino)
    \/ \E ino \in InodeIds, nlink \in NlinkChoices : IcModify(ino, nlink)
    \/ \E ino \in InodeIds : IcFlushInode(ino)
    \/ IcFlush

SpecIC == InitIC /\ [][NextIC]_vars

(***************************************************************************)
(* The two caches, each on its own: a run is one of the block cache over   *)
(* its device or one of the InodeCache over its store.                     *)
(***************************************************************************)
InitCaches == InitBC \/ InitIC
\* the run is one of the block cache: it has a device
OverDevice == dev # <<>>

NextCaches ==
    \/ OverDevice /\ NextBC
    \/ ~OverDevice /\ NextIC

SpecCaches == InitCaches /\ [][NextCaches]_vars

(***************************************************************************)
(* Claims about the block cache (SpecBC).                                  *)
(***************************************************************************)

\* C1: read_block(id) returns the data of the most recent write_block(id),
\* or the device's original content if id was never written: in every state
\* a read of any id delivers what a plain block map holds for it.
C1_ReadReturnsLatestWrite ==
    \A b \in BlockIds : BlockCache_read_block(BcState, b).buf = shadow[b]

\* C2: after write_block(id, data) returns, the cached entry for id holds
\* data and its dirty flag is set, on a miss and on a hit alike.
C2_WriteLeavesDirtyEntry ==
    [][\A b \in BlockIds, buf \in DataBlocks :
          WriteBlock(b, buf) =>
             /\ b \in LruKeys(cache')
             /\ LruValue(cache', b).buffer = buf
             /\ LruValue(cache', b).dirty]_vars

\* C3: when an insertion into the full cache removes an entry whose dirty
\* flag is set, the device holds that entry's buffer once the operation has
\* returned; an entry whose dirty flag is clear is removed without a device
\* write.
C3_EvictionWritesBack ==
    \A i \in 1 .. Len(evicted) :
        /\ evicted[i].dirty => dev[evicted[i].block_id] = evicted[i].buffer
        /\ ~evicted[i].dirty => evicted[i].block_id \notin wrote
C3_Witness ==
    /\ Len(cache) = CACHE_SIZE
    /\ \E i \in 1 .. Len(evicted) :
          /\ evicted[i].dirty
          /\ evicted[i].block_id \notin LruKeys(cache)
          /\ evicted[i].buffer # OrigBlock(evicted[i].block_id)

(***************************************************************************)
(* Claims about read_at and write_at (SpecIO).                             *)
(***************************************************************************)

\* C4: write_at(buf, offset) into a range the extents and the size cover,
\* followed by read_at of the same offset and length with no write in
\* between, returns len bytes equal to buf.
C4_ReadBackWritten ==
    (wr # None /\ ~crashed) =>
        \A overflow_checks \in BOOLEAN :
            LET r == Attrs_read_at(file, BcState, Len(wr.buf), wr.offset,
                                   overflow_checks)
            IN r.status = "ok" /\ r.n = Len(wr.buf) /\ r.bytes = wr.buf

\* C5: write_at(buf, offset) changes only the file bytes in
\* [offset, offset + len): every other byte of the file reads the same
\* after the call as before it.
C5_WriteChangesOnlyItsRange ==
    [][\A len \in 0 .. MaxLen, offset \in 0 .. MaxOffset :
          WriteAt(DataBuf(nwrites + 1, len), offset) =>
             \A k \in 1 .. file.size :
                (k <= offset \/ k > offset + len) => FileBytes'[k] = FileBytes[k]]_vars

\* C6: read_at with offset >= size returns 0 bytes and completes normally,
\* for offset = size and for offset > size, whatever the length.
C6_ReadAtOrPastEndReturnsZero ==
    \A len \in 0 .. MaxLen, offset \in 0 .. MaxOffset, overflow_checks \in BOOLEAN :
        offset >= file.size =>
            LET r == Attrs_read_at(file, BcState, len, offset, overflow_checks)
            IN r.status = "ok" /\ r.n = 0

(***************************************************************************)
(* Claims about the dispatcher (SpecFS).                                   *)
(***************************************************************************)

\* C7: lookup(parent, name) succeeds if and only if create, mkdir, symlink,
\* link or rename has placed name under parent and no unlink, rmdir or rename
\* has removed it since; a name never placed is not found.
C7_LookupIffPlaced ==
    Serving =>
       \A req \in Reqs, parent \in Inos, name \in AllNames :
          SFS_lookup(Store, req, parent, name).code = "ok"
             <=> <<parent, name>> \in placed

\* the directory entries, over all directories, that refer to ino
EntriesTo(ino) ==
    {<<dir, name>> \in (DOMAIN contents) \X AllNames :
        /\ contents[dir].fmt = "dir"
        /\ name \in DOMAIN deserialize_directory(contents[dir].data)
        /\ deserialize_directory(contents[dir].data)[name][1] = ino}

\* C8: the link count of every inode that is not a directory equals the
\* number of directory entries, over all directories, that refer to it.
C8_NlinkCountsEntries ==
    Serving =>
       \A ino \in DOMAIN inodes :
          bincode_deserialize(inodes[ino]).kind # "Directory" =>
             bincode_deserialize(inodes[ino]).hardlinks = Cardinality(EntriesTo(ino))

\* C9: once unlink has driven the link count of an inode to 0 and no handle
\* on it is open, the key-value store holds no row for that inode number.
C9_UnlinkedAndClosedHasNoRow ==
    Serving =>
       \A ino \in zeroed : OpenCount(ino) = 0 => ino \notin DOMAIN inodes

(***************************************************************************)
(* Claims about the inode cache (SpecIC).                                  *)
(***************************************************************************)

\* C10: when a dirty entry leaves the InodeCache (evicted, popped by
\* flush_inode, cleared by flush, or replaced through insert) the row of its
\* ino then equals its attrs if its nlink is above 0 and is absent if its
\* nlink is 0; a clean entry that leaves writes nothing to the store.
C10_LeavingEntryIsWrittenBack ==
    \A i \in 1 .. Len(left) :
       LET inode == left[i].inode
       IN /\ (inode.dirty /\ inode.attrs.nlink > 0) =>
                /\ KVStore_get(kv, inode.attrs.ino) # <<>>
                /\ Attrs_deserialize(KVStore_get(kv, inode.attrs.ino)) = inode.attrs
          /\ (inode.dirty /\ inode.attrs.nlink = 0) =>
                KVStore_get(kv, inode.attrs.ino) = <<>>
          /\ ~inode.dirty => ~left[i].wrote
\* a full cache has evicted a dirty entry with links, and its row is there
C10_Witness ==
    /\ Len(icache) = InodeCapacity
    /\ \E i \in 1 .. Len(left) :
          /\ left[i].inode.dirty
          /\ left[i].inode.attrs.nlink > 0
          /\ left[i].inode.attrs.ino \notin LruKeys(icache)
          /\ left[i].wrote

\* the row of ino in the store is the serialization of the attrs cached for it
RowIsCached(c, m, ino) ==
    /\ ino \in LruKeys(c)
    /\ KVStore_get(m, ino) = Attrs_serialize(LruValue(c, ino).attrs)

\* C11: immediately after insert(attrs) or modify(ino, f) returns for an
\* inode of kind Directory with nlink > 0, the row of that ino equals the
\* attrs now held in the cache, whatever was cached for the ino before the
\* call.
C11_DirectoryRowFollowsCache ==
    [][\A ino \in InodeIds, nlink \in NlinkChoices :
          (/\ KindOf(ino) = "Directory"
           /\ nlink > 0
           /\ \/ IcInsert(ino, nlink)
              \/ IcModify(ino, nlink) /\ InodeCache_modify(IcState, ino, nlink).code = "ok")
          => RowIsCached(icache', kv', ino)]_vars

\* C12: read(ino, f) returns ENOENT exactly when ino is not cached and the
\* store has no value for it, and EIO exactly when ino is not cached and the
\* stored value fails to decode; in both error cases the cache and the store
\* are left unchanged, and on success after a miss the entry is in the cache
\* with the decoded attrs and a clear dirty flag.
C12_ReadErrorsAndCleanInsert ==
    \A ino \in InodeIds :
       LET r == InodeCache_read(IcState, ino)
           miss == ino \notin LruKeys(icache)
           data == KVStore_get(kv, ino)
       IN /\ r.code = "ENOENT" <=> (miss /\ data = <<>>)
          /\ r.code = "EIO" <=> (miss /\ data # <<>> /\ ~Attrs_decodes(data))
          /\ r.code # "ok" => (r.s.cache = icache /\ r.s.kv = kv /\ r.s.writes = <<>>)
          /\ (r.code = "ok" /\ miss) =>
                /\ ino \in LruKeys(r.s.cache)
                /\ LruValue(r.s.cache, ino) = Inode(Attrs_deserialize(data), FALSE)
\* one ino has a row that does not decode, another has no row, and a third
\* sits in the cache clean, which only a read after a miss brings about
C12_Witness ==
    /\ \E ino \in InodeIds : InodeCache_read(IcState, ino).code = "EIO"
    /\ \E ino \in InodeIds : InodeCache_read(IcState, ino).code = "ENOENT"
    /\ \E ino \in LruKeys(icache) : ~LruValue(icache, ino).dirty

(***************************************************************************)
(* Claims about files and attributes in the dispatcher (SpecRW).           *)
(***************************************************************************)

\* the blocks that the extents of an inode row name; no handler of lib.rs
\* puts an extent into the row
InodeAttributes_blocks(attrs) == Len(attrs.extents)

\* C13: after any sequence of create, write and setattr, every live
\* regular-file inode has (number of blocks in its extents) * BLOCK_SIZE
\* >= size.
C13_ExtentsCoverSize ==
    Serving =>
       \A ino \in DOMAIN inodes :
          LET attrs == bincode_deserialize(inodes[ino])
          IN attrs.kind = "File" =>
                InodeAttributes_blocks(attrs) * LIB_BLOCK_SIZE >= attrs.size

\* the larger of two numbers
Max(a, b) == IF a > b THEN a ELSE b

\* C14: after a successful write(ino, offset, data) the reply is len(data)
\* and getattr(ino).size is the larger of the size before the write and
\* offset + len(data); a write that lies inside the existing size leaves
\* size unchanged.
C14_WriteReplyAndSize ==
    Serving =>
       \A inode \in Inos, fh \in FileHandles, offset \in FileOffsets, data \in WriteData :
          LET before == SFS_getattr(Store, inode)
              r == SFS_write(Store, inode, fh, offset, data)
              after == SFS_getattr(r.st, inode)
          IN r.code = "ok" =>
                /\ r.written = Len(data)
                /\ before.code = "ok"
                /\ after.code = "ok"
                /\ after.attr.size = Max(before.attr.size, offset + Len(data))
                /\ offset + Len(data) <= before.attr.size =>
                      after.attr.size = before.attr.size
\* a file has grown by a write past its start, so that a further write can
\* lie inside it or extend it
C14_Witness ==
    /\ Serving
    /\ \E inode \in DOMAIN inodes, fh \in FileHandles, data \in WriteData :
          /\ bincode_deserialize(inodes[inode]).kind = "File"
          /\ bincode_deserialize(inodes[inode]).size > 1
          /\ Len(contents[inode].data) = bincode_deserialize(inodes[inode]).size
          /\ data # <<>>
          /\ SFS_write(Store, inode, fh, 0, data).code = "ok"

(***************************************************************************)
(* Claims about names in the dispatcher (SpecFS).                          *)
(***************************************************************************)

\* C15: after a successful rename(parent, name, new_parent, new_name) with
\* (parent, name) different from (new_parent, new_name), lookup(parent, name)
\* replies ENOENT and lookup(new_parent, new_name) returns the inode number
\* the name had before, with the link count of that inode unchanged; rename
\* of a source that is missing replies ENOENT and changes nothing.
C15_RenameMovesTheName ==
    Serving =>
       \A req \in Reqs, parent \in Inos, name \in Names, new_parent \in Inos, new_name \in Names, overflow_checks \in BOOLEAN :
          LET before == lookup_name(Store, parent, name)
              r == SFS_rename(Store, req, parent, name, new_parent, new_name, 0, overflow_checks)
              old == SFS_lookup(r.st, req, parent, name)
              new == SFS_lookup(r.st, req, new_parent, new_name)
          IN /\ (r.code = "ok" /\ <<parent, name>> # <<new_parent, new_name>>) =>
                   /\ old.code = "ENOENT"
                   /\ new.code = "ok"
                   /\ new.ino = before.v.inode
                   /\ get_inode(r.st, new.ino).v.hardlinks = before.v.hardlinks
             /\ before.tag = "err" => (r.code = "ENOENT" /\ r.st = Store)
\* a name can be renamed into another directory, over a name that is there
C15_Witness ==
    /\ Serving
    /\ \E req \in Reqs, parent \in Inos, name \in Names, new_parent \in Inos, new_name \in Names :
          /\ parent # new_parent
          /\ lookup_name(Store, new_parent, new_name).tag = "ok"
          /\ SFS_rename(Store, req, parent, name, new_parent, new_name, 0, TRUE).code = "ok"
    /\ \E parent \in Inos, name \in Names : lookup_name(Store, parent, name).tag = "err"

\* name is an entry of the directory parent
HasEntry(st, parent, name) ==
    /\ get_directory_content(st, parent).tag = "ok"
    /\ name \in DOMAIN get_directory_content(st, parent).v

C17_RmdirIsUnlink ==
    Serving =>
       \A req \in Reqs, parent \in Inos, name \in Names :
          LET target == lookup_name(Store, parent, name)
              r == SFS_rmdir(Store, req, parent, name)
              u == SFS_unlink(Store, req, parent, name, TRUE)
          IN (target.tag = "ok" /\ target.v.kind = "Directory" /\ u.code = "ok") =>
                /\ r.code = "ok"
                /\ ~HasEntry(r.st, parent, name)
                /\ r.st.inodes = u.st.inodes

(***************************************************************************)
(* Claims about readdir (SpecRW).                                          *)
(***************************************************************************)

\* the entries that a series of readdir calls delivers: each call starts at
\* the offset attached to the last entry of the call before it, and the
\* series ends with the call that delivers nothing (or after calls calls)
RECURSIVE readdir_series(_, _, _, _, _)
readdir_series(st, inode, offset, room, calls) ==
    LET r == SFS_readdir(st, inode, offset, room)
    IN IF calls = 0 \/ r.code # "ok" \/ r.entries = <<>> THEN <<>>
       ELSE r.entries \o readdir_series(st, inode, r.entries[Len(r.entries)].offset,
                                        room, calls - 1)

\* C18: for a directory that is not modified in between, a series of readdir
\* calls, each started at the offset attached to the last entry delivered by
\* the call before (0 for the first), delivers every entry of the directory
\* exactly once and in the order of the directory, wherever the reply buffer
\* reports full.
C18_ReaddirSeriesIsTheDirectory ==
    Serving =>
       \A inode \in DOMAIN contents, room \in 1 .. MaxRoom :
          contents[inode].fmt = "dir" =>
             LET listed == contents[inode].data
                 got == readdir_series(Store, inode, 0, room, Len(listed) + 1)
             IN /\ Len(got) = Len(listed)
                /\ \A i \in 1 .. Len(listed) :
                      /\ got[i].name = listed[i][1]
                      /\ got[i].ino = listed[i][2][1]
                      /\ got[i].kind = listed[i][2][2]
\* a directory holds more entries than fit into one reply
C18_Witness ==
    /\ Serving
    /\ \E inode \in DOMAIN contents, room \in 1 .. MaxRoom :
          /\ contents[inode].fmt = "dir"
          /\ Len(contents[inode].data) > room + 1
          /\ Len(SFS_readdir(Store, inode, 0, room).entries) = room

(***************************************************************************)
(* Claims about replies (SpecFS).                                          *)
(***************************************************************************)

\* C19: every invocation of a handler (lookup, getattr, setattr, mkdir,
\* unlink, rmdir, symlink, rename, link, open, read, write, readdir, access,
\* create) calls its reply sink exactly once, with a success payload or an
\* errno, for every input including a parent or inode number that does not
\* exist: no handler unwinds before it has replied.
C19_EveryHandlerReplies ==
    Serving =>
       \A req \in Reqs, parent \in Inos, name \in Names, inode \in Inos :
          /\ SFS_lookup(Store, req, parent, name).code # "panic"
          /\ SFS_getattr(Store, inode).code # "panic"
          /\ \A a \in SetattrArgs :
                SFS_setattr(Store, req, inode, a.mode, a.uid, a.gid, a.size, a.atime, a.mtime).code # "panic"
          /\ \A mode \in MkdirModes : SFS_mkdir(Store, req, parent, name, mode).code # "panic"
          /\ SFS_unlink(Store, req, parent, name, TRUE).code # "panic"
          /\ SFS_rmdir(Store, req, parent, name).code # "panic"
          /\ SFS_symlink(Store, req, parent, name, LinkTarget).code # "panic"
          /\ \A new_parent \in Inos, new_name \in Names, flags \in RenameFlags :
                SFS_rename(Store, req, parent, name, new_parent, new_name, flags, TRUE).code # "panic"
          /\ SFS_link(Store, req, inode, parent, name).code # "panic"
          /\ \A flags \in OpenFlags : SFS_open(Store, req, inode, flags).code # "panic"
          /\ \A fh \in FileHandles, offset \in FileOffsets :
                /\ \A size \in ReadSizes : SFS_read(Store, inode, fh, offset, size).code # "panic"
                /\ \A data \in WriteData : SFS_write(Store, inode, fh, offset, data).code # "panic"
          /\ \A offset \in 0 .. MaxRoom, room \in 1 .. MaxRoom :
                SFS_readdir(Store, inode, offset, room).code # "panic"
          /\ \A mask \in AccessMasks : SFS_access(Store, req, inode, mask).code # "panic"
          /\ \A mode \in CreateModes, flags \in CreateFlags :
                SFS_create(Store, req, parent, name, mode, flags).code # "panic"

(***************************************************************************)
(* Claims about device errors in read_at and write_at (SpecDev).           *)
(***************************************************************************)

\* the blocks that read_at or write_at of len bytes at offset goes through
BlocksOf(attrs, len, offset) ==
    SkipTake(FlatBlocks(attrs.extents), offset \div BLOCK_SIZE,
             (offset + len + (BLOCK_SIZE - 1)) \div BLOCK_SIZE)

\* C20: a block-device read or write error that occurs during an explicit
\* read_at or write_at (a short read of a block that lies past the end of
\* the backing file) is returned to the caller as an error, and the
\* operation does not abort the process.
C20_DeviceErrorIsReturned ==
    ~crashed =>
       \A len \in 0 .. MaxLen, offset \in 0 .. MaxOffset :
          offset + len <= file.size =>
             /\ read_at_loop(BcState, BlocksOf(file, len, offset), <<>>).unwound =>
                   Attrs_read_at(file, BcState, len, offset, TRUE).status = "error"
             /\ \A v \in DataVals :
                   LET g == write_at_gather(BcState, BlocksOf(file, len, offset),
                               offset \div BLOCK_SIZE,
                               [begin |-> offset \div BLOCK_SIZE,
                                end |-> (offset + len + (BLOCK_SIZE - 1)) \div BLOCK_SIZE,
                                off |-> offset % BLOCK_SIZE,
                                eoff |-> (offset + len) % BLOCK_SIZE], <<>>)
                   IN g.unwound =>
                         Attrs_write_at(file, BcState, DataBuf(v, len), offset).status = "error"

(***************************************************************************)
(* Claims about fsync (SpecSync).                                          *)
(***************************************************************************)
\* the blocks of the inode that are cached dirty
DirtyBlocksOf(c, attrs) ==
    {b \in LruKeys(c) : LruValue(c, b).dirty /\ \E i \in 1 .. Attrs_blocks(attrs) : FlatBlocks(attrs.extents)[i] = b}

\* C21: when fsync on the inode has returned, the device holds, for every
\* block of the inode's extents, the block that write_at wrote to it last (a
\* fresh cache over the device reads the writes back), and no block of the
\* inode is left dirty in the cache.
C21_FsyncMakesWritesDurable ==
    [][Fsync =>
         /\ \A i \in 1 .. Attrs_blocks(file) :
               LET b == FlatBlocks(file.extents)[i]
               IN dev'[b] = shadow'[b]
         /\ DirtyBlocksOf(cache', file) = {}]_vars

(***************************************************************************)
(* Claims about inode numbers (SpecMount).                                 *)
(***************************************************************************)
\* C22: over any sequence of mkdir, create and symlink, with unmounts and
\* mounts in between, every inode number handed out differs from every number
\* handed out before and from the root's, and every row is kept under the
\* number it carries, so that no two live inodes share a number.
C22_InodeNumbersAreFresh ==
    /\ \A i \in 1 .. Len(issued) :
          /\ issued[i] # FUSE_ROOT_ID
          /\ \A j \in 1 .. Len(issued) : issued[i] = issued[j] => i = j
    /\ \A ino \in DOMAIN inodes : bincode_deserialize(inodes[ino]).inode = ino

\* two numbers were handed out by create, the second after the file system
\* was mounted again: the handle counter has started at 1 a second time
C22_Witness ==
    /\ Len(issued) = 2
    /\ \A i \in 1 .. 2 :
          /\ issued[i] \in DOMAIN inodes
          /\ bincode_deserialize(inodes[issued[i]]).kind = "File"
    /\ next_file_handle = 2
    /\ mounted

(***************************************************************************)
(* Claims about setattr (SpecRW).                                          *)
(***************************************************************************)
\* C23: setattr leaves every attribute whose argument is None as it was: the
\* mode when only uid and/or gid are passed, and uid, gid and size when only
\* mode is passed.
C23_SetattrKeepsAbsentFields ==
    \A req \in Reqs, inode \in DOMAIN inodes, a \in SetattrArgs :
       LET before == get_inode(Store, inode).v
           r == SFS_setattr(Store, req, inode, a.mode, a.uid, a.gid, a.size, a.atime, a.mtime)
           after == get_inode(r.st, inode).v
       IN Serving =>
             /\ a.mode = Absent => after.mode = before.mode
             /\ a.uid = Absent => after.uid = before.uid
             /\ a.gid = Absent => after.gid = before.gid
             /\ a.size = Absent => after.size = before.size

\* C24: after a setattr that replied ok, every attribute whose argument is
\* Some has the value asked for, also with several arguments in one call, and
\* the reply carries the attributes that a getattr made next returns.
C24_SetattrSetsGivenFields ==
    \A req \in Reqs, inode \in DOMAIN inodes, a \in SetattrArgs :
       LET r == SFS_setattr(Store, req, inode, a.mode, a.uid, a.gid, a.size, a.atime, a.mtime)
           after == get_inode(r.st, inode).v
       IN (Serving /\ r.code = "ok") =>
             /\ a.mode # Absent => after.mode = a.mode[1]
             /\ a.uid # Absent => after.uid = a.uid[1]
             /\ a.gid # Absent => after.gid = a.gid[1]
             /\ a.size # Absent => after.size = a.size[1]
             /\ r.attr = SFS_getattr(r.st, inode).attr

(***************************************************************************)
(* Claims about access (SpecRW).                                           *)
(***************************************************************************)
\* C25: access replies ok exactly when the inode exists: for an inode that
\* has a row, with every mask and for every requester; never for one that has
\* no row.
C25_AccessIffExists ==
    \A req \in Reqs, inode \in Inos, mask \in AccessMasks :
       Serving => (SFS_access(Store, req, inode, mask).code = "ok" <=> inode \in DOMAIN inodes)

(***************************************************************************)
(* Claims about new inodes (SpecMount).                                    *)
(***************************************************************************)
\* the reply r made a new inode: its row starts with one link, and the
\* parent's entries are those of before and the one entry name -> r.ino
MadeWithOneLink(r, parent, name) ==
    LET e0 == get_directory_content(Store, parent).v
        e1 == get_directory_content(r.st, parent).v
    IN r.code = "ok" =>
          /\ r.ino \notin DOMAIN inodes
          /\ get_inode(r.st, r.ino).tag = "ok"
          /\ get_inode(r.st, r.ino).v.hardlinks = 1
          /\ name \notin DOMAIN e0
          /\ e1 = Put(e0, name, e1[name])
          /\ {n \in DOMAIN e1 : e1[n][1] = r.ino} = {name}

\* C26: every inode record that mkdir, create or symlink makes starts with
\* nlink = 1 and is named by exactly one new entry of the parent directory.
C26_NewInodeHasOneLink ==
    \A req \in Reqs, parent \in Inos, name \in Names :
       Serving =>
          /\ \A mode \in MkdirModes :
                MadeWithOneLink(SFS_mkdir(Store, req, parent, name, mode), parent, name)
          /\ \A mode \in CreateModes, flags \in CreateFlags :
                MadeWithOneLink(SFS_create(Store, req, parent, name, mode, flags), parent, name)
          /\ MadeWithOneLink(SFS_symlink(Store, req, parent, name, LinkTarget), parent, name)

(***************************************************************************)
(* Claims about the capacity of the caches (SpecCaches).                   *)
(***************************************************************************)
\* C27: after every operation of the BlockCache and of the InodeCache the
\* number of cached entries is at most the capacity, and an operation that
\* inserts or writes an id that is cached already removes no other entry.
C27_CachesStayWithinCapacity ==
    /\ Len(cache) <= CACHE_SIZE
    /\ Len(icache) <= InodeCapacity
    /\ \A b \in LruKeys(cache) :
          /\ LruKeys(BlockCache_read_block(BcState, b).s.cache) = LruKeys(cache)
          /\ \A buf \in DataBlocks :
                LruKeys(BlockCache_write_block(BcState, b, buf).cache) = LruKeys(cache)
    /\ \A ino \in LruKeys(icache), nlink \in NlinkChoices :
          LruKeys(InodeCache_insert(IcState, Attrs(ino, KindOf(ino), nlink)).cache)
             = LruKeys(icache)

\* the InodeCache is full and the last operation was an insert of an ino that
\* was cached: the value it replaced was dropped, and the other entry stays
C27_Witness ==
    /\ Len(icache) = InodeCapacity
    /\ Len(left) = 1
    /\ left[1].inode.attrs.ino = icache[1][1]

(***************************************************************************)
(* Claims about a failing write-back (SpecFault).                          *)
(***************************************************************************)
\* an operation on block_id now has to evict, and the block to go is dirty
\* and one the device fails to write
EvictsUnwritable(block_id) ==
    /\ block_id \notin LruKeys(cache)
    /\ Len(cache) >= CACHE_SIZE
    /\ cache[Len(cache)][2].dirty
    /\ ~BlockDevice_write_block_is_ok(faulty, cache[Len(cache)][1])
\* s holds block_id with buf, the block that was to go is gone and among
\* the dropped, and the device is as it was before the operation
CompletedFor(s, block_id, buf) ==
    /\ block_id \in LruKeys(s.cache)
    /\ LruValue(s.cache, block_id).buffer = buf
    /\ cache[Len(cache)][1] \notin LruKeys(s.cache)
    /\ s.evicted = <<cache[Len(cache)][2]>>
    /\ s.dev = dev

\* C28: when the device write fails while a dirty block is evicted, the entry
\* is removed all the same and the read_block or write_block that caused the
\* eviction completes with its normal result for its own block id.
C28_FailedWriteBackIsOnlyLogged ==
    \A b \in BlockIds :
       EvictsUnwritable(b) =>
          /\ LET r == BlockCache_read_block(BcState, b)
             IN r.ok /\ r.buf = dev[b] /\ CompletedFor(r.s, b, r.buf)
          /\ \A buf \in DataBlocks :
                CompletedFor(BlockCache_write_block(BcState, b, buf), b, buf)

\* the last operation dropped a dirty block that the device did not take:
\* the block is gone from the cache and the device holds its old content
C28_Witness ==
    /\ Len(cache) = CACHE_SIZE
    /\ \E i \in 1 .. Len(evicted) :
          /\ evicted[i].dirty
          /\ evicted[i].block_id \in faulty
          /\ evicted[i].block_id \notin LruKeys(cache)
          /\ dev[evicted[i].block_id] # evicted[i].buffer

C30_TailBlockIsReadFirst ==
    \A len \in 1 .. MaxLen, offset \in 0 .. MaxOffset :
       LET begin == offset \div BLOCK_SIZE
           end == (offset + len + (BLOCK_SIZE - 1)) \div BLOCK_SIZE
           eoff == (offset + len) % BLOCK_SIZE
           c == [begin |-> begin, end |-> end, off |-> offset % BLOCK_SIZE, eoff |-> eoff]
           last == end - 1
           old == BlockView(cache, dev, FlatBlocks(file.extents)[last + 1])
           data == write_at_data(file, BcState, DataBuf(1, len), offset)
       IN (~crashed /\ offset + len <= file.size /\ last # begin) =>
             /\ reads_before_write(last, c) <=> eoff # 0
             /\ eoff # 0 =>
                   \A j \in (eoff + 1) .. BLOCK_SIZE :
                      data[(last - begin) * BLOCK_SIZE + j] = old[j]

(***************************************************************************)
(* Claims about the InodeCache as a store of the latest attrs (SpecIC).    *)
(***************************************************************************)

\* the value InodeCache::read hands to f: the cached attrs on a hit, the
\* decoded row on a miss, nothing when read is an Err
InodeCache_read_value(s, ino) ==
    IF ino \in LruKeys(s.cache)
    THEN Some(LruValue(s.cache, ino).attrs)
    ELSE LET data == KVStore_get(s.kv, ino)
         IN IF data # <<>> /\ Attrs_decodes(data)
            THEN Some(Attrs_deserialize(data))
            ELSE Absent

\* the states an operation other than an insert or a modify of ino leads to
StatesAround(s, ino) ==
    {InodeCache_insert(s, Attrs(i, KindOf(i), n)) : i \in InodeIds \ {ino}, n \in NlinkChoices}
       \cup {InodeCache_modify(s, i, n).s : i \in InodeIds \ {ino}, n \in NlinkChoices}
       \cup {InodeCache_read(s, i).s : i \in InodeIds}
       \cup {InodeCache_flush_inode(s, i) : i \in InodeIds}
       \cup {InodeCache_flush(s)}

\* C31: read(ino) of an inode with nlink > 0 returns the attrs of the latest
\* insert or modify of ino: an insert or a successful modify is followed by
\* a read of exactly its attrs, and every other operation (on another inode,
\* or a read or flush that evicts and reloads ino) leaves the attrs that a
\* read of ino returns as they were.
C31_ReadReturnsLatestAttrs ==
    \A ino \in InodeIds :
       LET v == InodeCache_read_value(IcState, ino)
       IN /\ \A nlink \in NlinkChoices \ {0} :
                LET attrs == Attrs(ino, KindOf(ino), nlink)
                    m == InodeCache_modify(IcState, ino, nlink)
                IN /\ InodeCache_read_value(InodeCache_insert(IcState, attrs), ino)
                         = Some(attrs)
                   /\ InodeCache_read(InodeCache_insert(IcState, attrs), ino).code = "ok"
                   /\ m.code = "ok" =>
                         /\ v # Absent
                         /\ InodeCache_read_value(m.s, ino)
                               = Some([v[1] EXCEPT !.nlink = nlink])
          /\ (v # Absent /\ v[1].nlink > 0) =>
                \A s \in StatesAround(IcState, ino) :
                   /\ InodeCache_read_value(s, ino) = v
                   /\ InodeCache_read(s, ino).code = "ok"

\* the last operation was an insert that replaced a dirty cached entry of the
\* same ino by attrs with another link count: the replaced entry was written
\* to the store after the new one, so the row holds the old attrs
C31_Witness ==
    /\ Len(icache) = InodeCapacity
    /\ Len(left) = 1
    /\ left[1].inode.dirty
    /\ left[1].wrote
    /\ left[1].inode.attrs.ino = icache[1][1]
    /\ left[1].inode.attrs.nlink > 0
    /\ icache[1][2].attrs.nlink > 0
    /\ icache[1][2].attrs # left[1].inode.attrs
    /\ KVStore_get(kv, icache[1][1]) = Attrs_serialize(left[1].inode.attrs)

(***************************************************************************)
(* Claims about rename onto the same inode (SpecFS).                       *)
(***************************************************************************)

\* the directory entries of the store st that name ino
EntriesIn(st, ino) ==
    {<<dir, name>> \in (DOMAIN st.contents) \X AllNames :
        /\ st.contents[dir].fmt = "dir"
        /\ name \in DOMAIN deserialize_directory(st.contents[dir].data)
        /\ deserialize_directory(st.contents[dir].data)[name][1] = ino}

\* ino is alive in st with the content it has now, and its link count is
\* the number of entries that name it
KeptWhole(st, ino) ==
    /\ ino \in DOMAIN st.inodes
    /\ ino \in DOMAIN st.contents
    /\ st.contents[ino] = contents[ino]
    /\ bincode_deserialize(st.inodes[ino]).hardlinks = Cardinality(EntriesIn(st, ino))

\* C32: a rename of an entry onto itself, and a rename of one hard link onto
\* another hard link of the same inode, that replies ok leaves the inode
\* with its row, its content and a link count equal to the number of
\* entries that still name it (for an inode whose link count was right).
C32_RenameOntoSameInodeKeepsIt ==
    Serving =>
       \A req \in Reqs, parent \in Inos, name \in Names, new_parent \in Inos,
          new_name \in Names :
          LET from == lookup_name(Store, parent, name)
              onto == lookup_name(Store, new_parent, new_name)
              r == SFS_rename(Store, req, parent, name, new_parent, new_name, 0, TRUE)
          IN (/\ from.tag = "ok"
              /\ onto.tag = "ok"
              /\ from.v.inode = onto.v.inode
              /\ from.v.kind # "Directory"
              /\ KeptWhole(Store, from.v.inode)
              /\ r.code = "ok")
                => KeptWhole(r.st, from.v.inode)

(***************************************************************************)
(* Claims about the count of open handles (SpecFS).                        *)
(***************************************************************************)

\* C33: the open_file_handles of every row equals the number of handles
\* that create and open gave out on the inode and that were not released
\* since, and it is never below zero.
C33_OpenCountIsPersisted ==
    Serving =>
       \A ino \in DOMAIN inodes :
          /\ bincode_deserialize(inodes[ino]).open_file_handles = OpenCount(ino)
          /\ bincode_deserialize(inodes[ino]).open_file_handles >= 0

(***************************************************************************)
(* The size of a read reply (SFS::read, src/lib.rs), with the widths of    *)
(* the code: a u64 is four 16-bit limbs, a u32 is two, the most            *)
(* significant first.                                                      *)
(***************************************************************************)
Limb == 65536
U64(a, b, c, d) == <<a, b, c, d>>
U32(c, d) == <<c, d>>
\* the order of two numbers of the same width
RECURSIVE LimbsLess(_, _)
LimbsLess(x, y) ==
    IF x = <<>> THEN FALSE
    ELSE IF Head(x) # Head(y) THEN Head(x) < Head(y)
    ELSE LimbsLess(Tail(x), Tail(y))
\* x - y for x >= y, limb by limb with the borrow
U64_sub(x, y) ==
    LET d4 == x[4] - y[4]
        b4 == IF d4 < 0 THEN 1 ELSE 0
        d3 == x[3] - y[3] - b4
        b3 == IF d3 < 0 THEN 1 ELSE 0
        d2 == x[2] - y[2] - b3
        b2 == IF d2 < 0 THEN 1 ELSE 0
        d1 == x[1] - y[1] - b2
    IN <<d1, d2 + b2 * Limb, d3 + b3 * Limb, d4 + b4 * Limb>>
\* u64::saturating_sub
saturating_sub(x, y) == IF LimbsLess(x, y) THEN U64(0, 0, 0, 0) ELSE U64_sub(x, y)
\* `as u32` keeps the low 32 bits, `as u64` of a u32 puts zeros in front
as_u32(x) == U32(x[3], x[4])
as_u64(x) == U64(0, 0, x[1], x[2])
\* std::cmp::min
min_limbs(a, b) == IF LimbsLess(b, a) THEN b ELSE a

\* let read_size = min(size, file_size.saturating_sub(offset as u64) as u32)
read_size(size, file_size, offset) ==
    min_limbs(size, as_u32(saturating_sub(file_size, offset)))

\* size: u32, the length of a content file, offset: i64 that is not negative
ReadLengths == {U32(0, 0), U32(0, 1), U32(0, 4096), U32(Limb - 1, Limb - 1)}
ContentLengths == {U64(0, 0, 0, 0), U64(0, 0, 0, 1), U64(0, 0, 0, 4096), U64(0, 0, Limb - 1, Limb - 1), U64(0, 1, 0, 0), U64(0, 1, 0, 5), U64(0, 256, 0, 0)}
ReadOffsets == {U64(0, 0, 0, 0), U64(0, 0, 0, 1), U64(0, 0, 0, 4096), U64(0, 1, 0, 0), U64(0, 256, 0, 0)}

InitReadSize ==
    /\ BcIdle
    /\ IoIdle
    /\ crashed = FALSE
    /\ FsIdle
    /\ IcIdle
    /\ bitmap = <<>>
    /\ handed = <<>>
    /\ call \in [fn : {"read"}, size : ReadLengths, file_size : ContentLengths, offset : ReadOffsets, out : {Absent}]

\* read on an open content file: the reply is a buffer of read_size bytes
ReadReply ==
    /\ call.out = Absent
    /\ call' = [call EXCEPT !.out = Some(read_size(call.size, call.file_size, call.offset))]
    /\ UNCHANGED <<bcVars, ioVars, crashed, fsVars, icVars, bitmap, handed>>

SpecReadSize == InitReadSize /\ [][ReadReply]_vars

\* C34: read replies with exactly min(size, file_size - offset) bytes, and
\* with 0 bytes when offset >= file_size, for every file size up to 2^40,
\* also where file_size - offset is 2^32 or more.
C34_ReadReplyLength ==
    call.out # Absent =>
       LET rest == saturating_sub(call.file_size, call.offset)
       IN as_u64(call.out[1]) = min_limbs(as_u64(call.size), rest)

(***************************************************************************)
(* The block allocator (SFS::allocate_next_block, src/lib.rs) over the row *)
(* "bitmap": a vector of bytes, one bit per block.                         *)
(***************************************************************************)
\* vec![0; 100000], instantiated small
BitmapLen == 2
MaxAllocs == 100
Byte == 256
BitXor(a, b) == BitOr(a, b) - BitAnd(a, b)
\* bitintr: blcs sets the lowest clear bit (x | (x + 1), wrapping), tzcnt
\* counts the trailing zero bits (the width, 8, for 0)
blcs(b) == BitOr(b, (b + 1) % Byte)
RECURSIVE tzcnt(_)
tzcnt(x) == IF x = 0 THEN 8 ELSE IF x % 2 = 1 THEN 0 ELSE 1 + tzcnt(x \div 2)

\* the loop over the bytes, from byte i (counted from 0) on
RECURSIVE bitmap_scan(_, _)
bitmap_scan(bytes, i) ==
    IF i >= Len(bytes) THEN Absent
    ELSE LET b == bytes[i + 1]
             bb == blcs(b)
             bbb == BitXor(b, bb)
             cnt == tzcnt(bbb)
         IN IF cnt # 8 THEN Some(i * 8 + cnt) ELSE bitmap_scan(bytes, i + 1)

\* [row |-> the row "bitmap" after, out |-> the Option returned]
allocate_next_block(row) ==
    IF row # Absent
    THEN [row |-> row, out |-> bitmap_scan(row[1], 0)]
    ELSE [row |-> Some([i \in 1 .. BitmapLen |-> IF i = 1 THEN 1 ELSE 0]),
          out |-> Some(0)]

\* a fresh db: no row "bitmap"
InitAlloc ==
    /\ BcIdle
    /\ IoIdle
    /\ crashed = FALSE
    /\ FsIdle
    /\ IcIdle
    /\ UnitIdle

AllocateBlock ==
    /\ Len(handed) < MaxAllocs
    /\ LET r == allocate_next_block(bitmap)
       IN /\ bitmap' = r.row
          /\ handed' = Append(handed, r.out)
    /\ UNCHANGED <<bcVars, ioVars, crashed, fsVars, icVars, call>>

SpecAlloc == InitAlloc /\ [][AllocateBlock]_vars

\* bit n of the row "bitmap" is set
BitIsSet(row, n) ==
    /\ row # Absent
    /\ n \div 8 < Len(row[1])
    /\ (row[1][(n \div 8) + 1] \div (2 ^ (n % 8))) % 2 = 1

\* C35: every block number a successful allocation returned is marked used
\* in the bitmap, and, as nothing is ever freed, no two allocations
\* returned the same block number; None is returned only when every bit is
\* set.
C35_AllocationsAreMarkedAndDistinct ==
    /\ \A k \in 1 .. Len(handed) :
          handed[k] # Absent => BitIsSet(bitmap, handed[k][1])
    /\ \A j, k \in 1 .. Len(handed) :
          (j < k /\ handed[j] # Absent) => handed[j] # handed[k]
    /\ \A k \in 1 .. Len(handed) :
          handed[k] = Absent => \A n \in 0 .. (8 * BitmapLen - 1) : BitIsSet(bitmap, n)

(***************************************************************************)
(* check_access (src/lib.rs) called on its own.                            *)
(***************************************************************************)
\* owners and callers: root, one user and a stranger; modes with each
\* permission bit alone, the usual ones, and ones with the bits above 0o777
AccessIds == {0, 1, 2}
AccessModes == {0, 64, 8, 1, 256, 32, 4, 128, 16, 2, 56, 7, 448, 420, 493, 511, S_ISUID + 493, S_ISVTX + 511}
\* R_OK | W_OK | X_OK and every part of it; 0 is F_OK
AllMasks == 0 .. (R_OK + W_OK + X_OK)

InitAccess ==
    /\ BcIdle
    /\ IoIdle
    /\ crashed = FALSE
    /\ FsIdle
    /\ IcIdle
    /\ bitmap = <<>>
    /\ handed = <<>>
    /\ call \in [fn : {"check_access"}, file_uid : {0, 1}, file_gid : {0, 1}, file_mode : AccessModes, uid : AccessIds, gid : AccessIds, access_mask : AllMasks, out : {Absent}]

CheckAccess ==
    /\ call.out = Absent
    /\ call' = [call EXCEPT !.out = Some(check_access(call.file_uid, call.file_gid, call.file_mode, call.uid, call.gid, call.access_mask))]
    /\ UNCHANGED <<bcVars, ioVars, crashed, fsVars, icVars, bitmap, handed>>

SpecAccess == InitAccess /\ [][CheckAccess]_vars

\* the three permission bits of the class the caller falls in
ClassBits(c) ==
    IF c.uid = c.file_uid THEN (c.file_mode \div 64) % 8
    ELSE IF c.gid = c.file_gid THEN (c.file_mode \div 8) % 8
    ELSE c.file_mode % 8

\* C36: check_access is true for the mask F_OK; for uid 0 it is true unless
\* X_OK is requested and none of the three execute bits is set; for any
\* other uid it is true exactly when every requested bit is among the
\* owner bits if uid = file_uid, else among the group bits if gid =
\* file_gid, else among the bits for others.
C36_CheckAccessByClass ==
    call.out # Absent =>
       call.out[1] =
          IF call.access_mask = F_OK THEN TRUE
          ELSE IF call.uid = 0
          THEN ~(/\ BitAnd(call.access_mask, X_OK) # 0
                 /\ BitAnd(call.file_mode, S_IXUSR + S_IXGRP + S_IXOTH) = 0)
          ELSE \A bit \in {R_OK, W_OK, X_OK} :
                  BitAnd(call.access_mask, bit) # 0 => BitAnd(ClassBits(call), bit) # 0

\* a caller in the file's group, not its owner, was granted read and write
\* by the group bits where the bits for others would have refused
C36_Witness ==
    /\ call.out = Some(TRUE)
    /\ call.uid # 0
    /\ call.uid # call.file_uid
    /\ call.gid = call.file_gid
    /\ call.access_mask = R_OK + W_OK
    /\ BitAnd(call.file_mode, R_OK + W_OK) = 0

(***************************************************************************)
(* BlockDevice::new (src/block_dev.rs): the std::fs::OpenOptions it builds *)
(* and the flags that open passes to the OS.                               *)
(***************************************************************************)
O_DIRECT == 16384
O_NOATIME == 262144
O_CLOEXEC == 524288

OpenOptions_new == [read |-> FALSE, write |-> FALSE, custom_flags |-> 0]
OpenOptions_read(o, read) == [o EXCEPT !.read = read]
OpenOptions_write(o, write) == [o EXCEPT !.write = write]
\* OpenOptionsExt::custom_flags stores the flags in place of the ones set
\* by an earlier call
OpenOptions_custom_flags(o, flags) == [o EXCEPT !.custom_flags = flags]
\* open: O_CLOEXEC, the access mode of read and write, and the custom flags
\* without their access mode bits
OpenOptions_open_flags(o) ==
    LET access_mode == IF o.read /\ o.write THEN O_RDWR
                       ELSE IF o.write THEN O_WRONLY ELSE O_RDONLY
    IN BitOr(BitOr(O_CLOEXEC, access_mode), BitClear(o.custom_flags, O_ACCMODE))

\* the flags of the open call that BlockDevice::new makes
BlockDevice_new ==
    LET o1 == OpenOptions_read(OpenOptions_new, TRUE)
        o2 == OpenOptions_write(o1, TRUE)
        o3 == OpenOptions_custom_flags(o2, O_DIRECT)
        o4 == OpenOptions_custom_flags(o3, O_NOATIME)
    IN OpenOptions_open_flags(o4)

\* the device is opened, once, before the cache over it is used
NewDevice ==
    /\ call = Absent
    /\ call' = Some([fn |-> "open", flags |-> BlockDevice_new])
    /\ UNCHANGED <<bcVars, ioVars, crashed, fsVars, icVars, bitmap, handed>>

NextOpen ==
    \/ NewDevice
    \/ call # Absent /\ NextBC

SpecOpen == InitBC /\ [][NextOpen]_vars

\* C37: the backing file is opened read-write with both hints at once: the
\* flags passed to the OS contain O_DIRECT and O_NOATIME.
C37_OpenedWithBothHints ==
    call # Absent =>
       /\ BitAnd(call[1].flags, O_ACCMODE) = O_RDWR
       /\ BitAnd(call[1].flags, O_DIRECT) = O_DIRECT
       /\ BitAnd(call[1].flags, O_NOATIME) = O_NOATIME

(***************************************************************************)
(* The two mutexes of src/inode.rs: Arc<Mutex<KVStore>> ("db") and         *)
(* Arc<Mutex<BlockCache>> ("dev").  Every lock() is a temporary of one     *)
(* statement, so its guard is released at the end of that statement.  The  *)
(* locks of an operation are the sequence of its lock and unlock events.   *)
(***************************************************************************)
\* a statement that takes the guard of m, runs what gives the events inner
\* and releases the guard
Guarded(m, inner) == <<(<<"lock", m>>)>> \o inner \o <<(<<"unlock", m>>)>>
RECURSIVE Repeat(_, _)
Repeat(events, n) == IF n = 0 THEN <<>> ELSE events \o Repeat(events, n - 1)

\* read_block, write_block, flush_block and the Drop of an evicted Block
\* reach the device through Arc<BlockDevice>, which is no mutex
BlockCache_locks == <<>>
\* self.db.lock().unwrap().as_mut().unwrap().put(..) or .remove(..)
Inode_flush_locks == Guarded("db", <<>>)
Inode_drop_locks(inode) == IF inode.dirty THEN Inode_flush_locks ELSE <<>>
RECURSIVE DropInodes_locks(_)
DropInodes_locks(is) ==
    IF is = <<>> THEN <<>> ELSE Inode_drop_locks(Head(is)) \o DropInodes_locks(Tail(is))
InodeCache_put_locks(s, ino, inode) ==
    DropInodes_locks(LruPut(s.cache, ino, inode, InodeCapacity).dropped)

InodeCache_insert_locks(s, attrs) ==
    (IF attrs.kind = "Directory" THEN Inode_flush_locks ELSE <<>>)
       \o InodeCache_put_locks(s, attrs.ino, Inode(attrs, TRUE))

\* a read whose guard lives until the end of the block that uses data
InodeCache_read_locks_guard_kept(s, ino) ==
    IF ino \in LruKeys(s.cache) THEN <<>>
    ELSE LET data == KVStore_get(s.kv, ino)
         IN Guarded("db",
               IF data # <<>> /\ Attrs_decodes(data)
               THEN InodeCache_put_locks(s, ino, Inode(Attrs_deserialize(data), FALSE))
               ELSE <<>>)
\* let data = self.db.lock().unwrap().get(&key); then the put
InodeCache_read_locks(s, ino) ==
    IF ino \in LruKeys(s.cache) THEN <<>>
    ELSE LET data == KVStore_get(s.kv, ino)
         IN Guarded("db", <<>>)
               \o (IF data # <<>> /\ Attrs_decodes(data)
                   THEN InodeCache_put_locks(s, ino,
                                             Inode(Attrs_deserialize(data), FALSE))
                   ELSE <<>>)

InodeCache_modify_locks(s, ino, nlink) ==
    IF ino \in LruKeys(s.cache)
    THEN IF LruValue(s.cache, ino).attrs.kind = "Directory" THEN Inode_flush_locks
         ELSE <<>>
    ELSE LET data == KVStore_get(s.kv, ino)
         IN Guarded("db", <<>>)
               \o (IF data # <<>> /\ Attrs_decodes(data)
                   THEN (IF Attrs_deserialize(data).kind = "Directory"
                         THEN Inode_flush_locks ELSE <<>>)
                           \o InodeCache_put_locks(s, ino,
                                 Inode([Attrs_deserialize(data) EXCEPT !.nlink = nlink],
                                       TRUE))
                   ELSE <<>>)

InodeCache_flush_inode_locks(s, ino) ==
    IF ino \in LruKeys(s.cache) THEN Inode_drop_locks(LruValue(s.cache, ino)) ELSE <<>>
InodeCache_flush_locks(s) ==
    DropInodes_locks([i \in 1 .. Len(s.cache) |-> s.cache[Len(s.cache) + 1 - i][2]])
\* list() under one guard, then one get per id, each under its own guard;
\* f is called with no guard alive (at most every row is visited)
InodeCache_scan_locks(s) ==
    Guarded("db", <<>>) \o Repeat(Guarded("db", <<>>), Cardinality(DOMAIN s.kv))

\* one dev.lock().unwrap().read_block(..) per block of the range
Attrs_read_at_locks(attrs, len, offset) ==
    LET begin == offset \div BLOCK_SIZE
        end == (offset + len + (BLOCK_SIZE - 1)) \div BLOCK_SIZE
    IN Repeat(Guarded("dev", BlockCache_locks),
              Len(SkipTake(FlatBlocks(attrs.extents), begin, end)))
\* the first loop locks for the blocks it reads, the second for every block
Attrs_write_at_locks(attrs, len, offset) ==
    LET begin == offset \div BLOCK_SIZE
        end == (offset + len + (BLOCK_SIZE - 1)) \div BLOCK_SIZE
        c == [begin |-> begin, end |-> end, off |-> offset % BLOCK_SIZE,
              eoff |-> (offset + len) % BLOCK_SIZE]
        n == Len(SkipTake(FlatBlocks(attrs.extents), begin, end))
        reads == Cardinality({i \in begin .. (begin + n - 1) : reads_before_write(i, c)})
    IN Repeat(Guarded("dev", BlockCache_locks), reads)
          \o Repeat(Guarded("dev", BlockCache_locks), n)

\* std::sync::Mutex is not reentrant: a lock of a mutex whose guard the
\* thread holds never returns
RECURSIVE SelfDeadlocks(_, _)
SelfDeadlocks(events, held) ==
    IF events = <<>> THEN FALSE
    ELSE IF Head(events)[1] = "lock"
    THEN \/ Head(events)[2] \in held
         \/ SelfDeadlocks(Tail(events), held \cup {Head(events)[2]})
    ELSE SelfDeadlocks(Tail(events), held \ {Head(events)[2]})

\* an InodeCache over its store, or a file over the block cache
InitLocks == InitIC \/ InitIO
NextLocks ==
    \/ file = None /\ NextIC
    \/ file # None /\ NextSync

SpecLocks == InitLocks /\ [][NextLocks]_vars

\* C38: no operation of the InodeCache (insert, read, modify, scan,
\* flush_inode, flush) and no read_at or write_at locks the KV mutex or the
\* block cache mutex while it holds that mutex, whatever the caches hold,
\* also when the operation evicts a dirty inode or block that is written
\* back in its drop.
C38_NoLockTakenTwice ==
    /\ \A ino \in InodeIds :
          /\ ~SelfDeadlocks(InodeCache_read_locks(IcState, ino), {})
          /\ ~SelfDeadlocks(InodeCache_flush_inode_locks(IcState, ino), {})
          /\ \A nlink \in NlinkChoices :
                /\ ~SelfDeadlocks(InodeCache_insert_locks(IcState,
                                     Attrs(ino, KindOf(ino), nlink)), {})
                /\ ~SelfDeadlocks(InodeCache_modify_locks(IcState, ino, nlink), {})
    /\ ~SelfDeadlocks(InodeCache_flush_locks(IcState), {})
    /\ ~SelfDeadlocks(InodeCache_scan_locks(IcState), {})
    /\ file # None =>
          \A len \in 0 .. MaxLen, offset \in 0 .. MaxOffset :
             /\ ~SelfDeadlocks(Attrs_read_at_locks(file, len, offset), {})
             /\ ~SelfDeadlocks(Attrs_write_at_locks(file, len, offset), {})

\* the last operation put an inode into the full cache and the entry it
\* evicted was dirty: its drop took the KV mutex and wrote the row
C38_Witness ==
    /\ Len(icache) = InodeCapacity
    /\ Len(left) = 1
    /\ left[1].inode.dirty
    /\ left[1].wrote
    /\ left[1].inode.attrs.ino \notin LruKeys(icache)
    /\ icache[1][2].dirty = FALSE

====
